---- MODULE Spec2Model ----
(***************************************************************************)
(* State-transition core of the noirwire shielded pool (Solana / Anchor):  *)
(* programs/shielded-pool.  One pool instance, its vault, its optional     *)
(* extended HistoricalRoots account and its per-nullifier accounts.        *)
(*                                                                         *)
(* Every instruction is modelled as an operator from the account state     *)
(* and the instruction's inputs to the handler's outcome (error code and   *)
(* the account state as the handler left it, partial writes included);     *)
(* the action then applies the host's transaction semantics to it.         *)
(*                                                                         *)
(* Digests ([u8; 32]) are natural numbers, the all-zero digest is 0.       *)
(* Public keys are strings.  Hashes (keccak) are injective functions.      *)
(***************************************************************************)
EXTENDS Integers, Sequences, FiniteSets, TLC

(***************************************************************************)
(* Program constants.                                                      *)
(***************************************************************************)
\* pool_state.rs:28
MAX_ROOT_AGE_SLOTS == 900
\* cleanup_nullifier.rs:12
MIN_NULLIFIER_AGE_FOR_CLEANUP == 18000

(***************************************************************************)
(* Bounds of the model.  The ring-buffer capacities, the integer width and *)
(* the minimum deposit are the program's constants scaled down (32, 256,   *)
(* 2^64 - 1 and 1000 in the source).                                       *)
(***************************************************************************)
HISTORICAL_ROOTS_SIZE == 3
HISTORICAL_ROOTS_CAPACITY == 3
U64_MAX == 2
U32_MAX == U64_MAX - 1
MIN_DEPOSIT_SPL_UNITS == 1
\* commitment roots are the digests 0..MaxRoot
MaxRoot == 1
\* nullifiers are the digests 0..MaxNullifier
MaxNullifier == 1
\* a behaviour of Spec holds at most MaxSteps successful instructions,
\* a behaviour of SpecRoots at most MaxRootSteps
MaxSteps == 3
MaxRootSteps == 4
\* a behaviour of SpecEmergency holds at most MaxEmergencySteps
MaxEmergencySteps == 5
\* a behaviour of SpecNullifiers holds at most MaxNullifierSteps
MaxNullifierSteps == 3
MaxDepositSteps == 3
\* a behaviour of SpecChain holds at most MaxChainSteps
MaxChainSteps == 3
\* a behaviour of SpecCodec holds at most MaxCodecSteps successful instructions
MaxCodecSteps == 2
\* successful instructions in a run of SpecSolvency
MaxSolvencySteps == 4
\* successful instructions in a run of SpecMerkle
MaxMerkleSteps == 2
\* successful instructions in a run of SpecCounters
MaxCounterSteps == 8
\* under SpecMerkle leaves and siblings are the digests 0..MaxDigest, a path
\* has at most MaxPath levels, and a path index (a u8) is one of 0..MaxPathIndex
MaxDigest == 2
MaxPath == 2
MaxPathIndex == 2
\* a byte takes BYTE_VALUES values (256 in the source), a u64 has U64_BYTES
\* bytes (8) and a field FIELD_BYTES bytes (32)
BYTE_VALUES == 2
U64_BYTES == 2
FIELD_BYTES == 4
\* the slot at which initialize runs
InitSlot == 1

ZERO_ROOT == 0
Roots == 0..MaxRoot
Nullifiers == 0..MaxNullifier

\* identities
ADMIN == "admin"
PER == "per"
USER == "user"
THIS_POOL == "pool"
OTHER_POOL == "other_pool"
POOL_MINT == "mint"
OTHER_MINT == "other_mint"

VARIABLES
    pool,               \* the PoolState account
    ext,                \* the HistoricalRoots PDA (extended tier)
    nullifier_entries,  \* the NullifierEntry PDAs, by nullifier seed
    vault,              \* token balance of the pool vault
    slot,               \* Clock::get()?.slot of the last successful instruction
    result,             \* record of the last successful instruction
    steps,              \* number of successful instructions so far
    first_spend,        \* history: per nullifier, the roots valid when it was
                        \* first spent, and whether its entry was reclaimed since
    emergency_used,     \* history: an emergency_withdraw has succeeded
    codec,              \* the last call of a field conversion on its own, and
                        \* what it returned (SpecCodec)
    ledger,             \* history: the sums of the amounts of the successful
                        \* deposits, withdraws and emergency_withdraws (SpecSolvency)
    merkle              \* the last call of compute_merkle_root_with_indices on
                        \* its own, and the root it returned (SpecMerkle)

vars ==
    <<pool, ext, nullifier_entries, vault, slot, result, steps, first_spend, emergency_used,
      codec, ledger, merkle>>

(***************************************************************************)
(* u64 arithmetic.                                                         *)
(***************************************************************************)
NONE == [some |-> FALSE, val |-> 0]
Some(v) == [some |-> TRUE, val |-> v]

\* faulty: u64::wrapping_add in place of u64::checked_add
wrapping_add(a, b) == Some((a + b) % (U64_MAX + 1))

checked_add(a, b) == IF a + b > U64_MAX THEN NONE ELSE Some(a + b)
checked_sub(a, b) == IF a < b THEN NONE ELSE Some(a - b)
saturating_sub(a, b) == IF a >= b THEN a - b ELSE 0

(***************************************************************************)
(* Field elements (state/proof.rs).  A 32-byte big-endian field is the     *)
(* pair of its bytes 0..24 (hi) and its bytes 24..32 (lo), as numbers.     *)
(***************************************************************************)
Field(h, l) == [hi |-> h, lo |-> l]

\* faulty variant: the value's bytes are never copied into the field
u64_to_field_blank(value) == Field(0, 0)

u64_to_field(value) == Field(0, value)

\* Ok(value) or Err(InvalidProof)
field_to_u64(field) ==
    IF field.hi # 0
    THEN [ok |-> FALSE, val |-> 0]
    ELSE LET value == field.lo IN
         IF field # u64_to_field(value)
         THEN [ok |-> FALSE, val |-> 0]
         ELSE [ok |-> TRUE, val |-> value]

\* settle_batch.rs: the count occupies the low bytes, the rest must be zero
field_to_u32(field) ==
    IF field.hi # 0 \/ field.lo > U32_MAX
    THEN [ok |-> FALSE, val |-> 0]
    ELSE [ok |-> TRUE, val |-> field.lo]

(***************************************************************************)
(* The same conversions byte by byte (state/proof.rs:230-284).  A field is *)
(* a sequence of FIELD_BYTES bytes, most significant first; a u64 is a     *)
(* number below BYTE_VALUES ^ U64_BYTES.                                   *)
(***************************************************************************)
Bytes == 0..(BYTE_VALUES - 1)
Fields == [1..FIELD_BYTES -> Bytes]
U64Values == 0..(BYTE_VALUES ^ U64_BYTES - 1)
\* the number of leading bytes a u64 leaves zero (24)
LEADING == FIELD_BYTES - U64_BYTES

\* the BN254 scalar field modulus p, scaled: u64::MAX < p < the largest field
FIELD_MODULUS == (3 * BYTE_VALUES ^ FIELD_BYTES) \div 8

\* u64::to_be_bytes
to_be_bytes(value) ==
    [i \in 1..U64_BYTES |-> (value \div (BYTE_VALUES ^ (U64_BYTES - i))) % BYTE_VALUES]

\* u64::from_be_bytes and BigUint::from_bytes_be
RECURSIVE from_bytes_be(_)
from_bytes_be(bytes) ==
    IF Len(bytes) = 0
    THEN 0
    ELSE from_bytes_be(SubSeq(bytes, 1, Len(bytes) - 1)) * BYTE_VALUES + bytes[Len(bytes)]

\* faulty variant: the value is copied least significant byte first
u64_to_field_bytes_le(value) ==
    [i \in 1..FIELD_BYTES |->
        IF i > LEADING THEN to_be_bytes(value)[U64_BYTES + 1 - (i - LEADING)] ELSE 0]

\* u64_to_field on bytes: result[24..32].copy_from_slice(&value.to_be_bytes())
u64_to_field_bytes(value) ==
    [i \in 1..FIELD_BYTES |-> IF i > LEADING THEN to_be_bytes(value)[i - LEADING] ELSE 0]

\* faulty variant: the last 8 bytes are parsed and nothing is validated
field_to_u64_bytes_unvalidated(field) ==
    [ok |-> TRUE, val |-> from_bytes_be(SubSeq(field, LEADING + 1, FIELD_BYTES))]

\* field_to_u64 on bytes: Ok(value) or Err(InvalidProof)
field_to_u64_bytes(field) ==
    IF \E i \in 1..LEADING : field[i] # 0
    THEN [ok |-> FALSE, val |-> 0]
    ELSE LET value == from_bytes_be(SubSeq(field, LEADING + 1, FIELD_BYTES))
             expected_field == u64_to_field_bytes(value)
         IN IF field # expected_field
            THEN [ok |-> FALSE, val |-> 0]
            ELSE IF ~(from_bytes_be(field) < FIELD_MODULUS)
            THEN [ok |-> FALSE, val |-> 0]
            ELSE [ok |-> TRUE, val |-> value]

\* the field of the instructions' bundles that the bytes spell: the number in
\* bytes 0..24 and the number in bytes 24..32
FieldOf(bytes) ==
    Field(from_bytes_be(SubSeq(bytes, 1, LEADING)),
          from_bytes_be(SubSeq(bytes, LEADING + 1, FIELD_BYTES)))

\* no conversion called yet
NoCall == [call |-> "none", value |-> 0, field |-> <<>>, ok |-> FALSE]

(***************************************************************************)
(* Verification keys (zk-verifier/state.rs) and their digest.  keccak is   *)
(* collision-free: the digest of the serialized account is the triple of   *)
(* the fields that distinguish the accounts of the model.                  *)
(***************************************************************************)
DEPOSIT == "deposit"
WITHDRAW == "withdraw"
BATCH_SETTLEMENT == "batch_settlement"

VkOf(circuit) == [pool |-> THIS_POOL, circuit_id |-> circuit, body |-> "vk"]

keccak_vk(vk) == <<vk.pool, vk.circuit_id, vk.body>>

(***************************************************************************)
(* The external proof verifier (zk-verifier verify, reached by CPI).  A    *)
(* proof object attests one statement; the verifier accepts it for the     *)
(* public inputs handed to it iff that statement is these inputs under     *)
(* this key, rejects a well-formed proof of anything else, and errors on   *)
(* a malformed one.                                                        *)
(***************************************************************************)
PROOF_OF_INPUTS == "proof_of_these_inputs"
PROOF_OF_OTHER == "proof_of_other_inputs"
PROOF_MALFORMED == "malformed_proof"

\* groth16::verify_proof: Ok(true), Ok(false) or Err
verify_proof(proof) ==
    CASE proof = PROOF_OF_INPUTS -> "true"
      [] proof = PROOF_OF_OTHER -> "false"
      [] OTHER -> "error"

\* faulty variant: the boolean verdict is dropped, only Err fails the call
cpi_verify_unchecked(proof) == verify_proof(proof) # "error"

\* zk_verifier::verify: Ok(()) iff verify_proof returned Ok(true)
cpi_verify(proof) == verify_proof(proof) = "true"

(***************************************************************************)
(* PoolState (state/pool_state.rs).                                        *)
(***************************************************************************)
InlineIdx == 0..(HISTORICAL_ROOTS_SIZE - 1)

\* faulty variant: a root expires one slot early (age < MAX_ROOT_AGE_SLOTS)
is_valid_root_strict(p, root, current_slot) ==
    IF p.commitment_root = root
    THEN saturating_sub(current_slot, p.commitment_root_slot) < MAX_ROOT_AGE_SLOTS
    ELSE LET hits == {i \in InlineIdx : p.historical_roots[i] = root} IN
         IF hits = {}
         THEN FALSE
         ELSE LET i == CHOOSE k \in hits : \A m \in hits : k <= m
                  root_slot == p.historical_roots_slots[i]
              IN IF root_slot = 0
                 THEN FALSE
                 ELSE saturating_sub(current_slot, root_slot) < MAX_ROOT_AGE_SLOTS

\* faulty variant: the current root is valid whatever its age
is_valid_root_current_unaged(p, root, current_slot) ==
    IF p.commitment_root = root
    THEN TRUE
    ELSE LET hits == {i \in InlineIdx : p.historical_roots[i] = root} IN
         IF hits = {}
         THEN FALSE
         ELSE LET i == CHOOSE k \in hits : \A m \in hits : k <= m
                  root_slot == p.historical_roots_slots[i]
              IN IF root_slot = 0
                 THEN FALSE
                 ELSE saturating_sub(current_slot, root_slot) <= MAX_ROOT_AGE_SLOTS

is_valid_root_with_expiration(p, root, current_slot) ==
    IF p.commitment_root = root
    THEN saturating_sub(current_slot, p.commitment_root_slot) <= MAX_ROOT_AGE_SLOTS
    ELSE LET hits == {i \in InlineIdx : p.historical_roots[i] = root} IN
         IF hits = {}
         THEN FALSE
         ELSE LET i == CHOOSE k \in hits : \A m \in hits : k <= m
                  root_slot == p.historical_roots_slots[i]
              IN IF root_slot = 0
                 THEN FALSE
                 ELSE saturating_sub(current_slot, root_slot) <= MAX_ROOT_AGE_SLOTS

\* faulty variant: the slot the index advances onto is not cleared
update_root_no_clear(p, new_root, current_slot) ==
    [p EXCEPT
       !.historical_roots[p.roots_index] = p.commitment_root,
       !.historical_roots_slots[p.roots_index] = p.commitment_root_slot,
       !.roots_index = (p.roots_index + 1) % HISTORICAL_ROOTS_SIZE,
       !.commitment_root = new_root,
       !.commitment_root_slot = current_slot]

\* faulty variant: the previous root is not retired to the history
update_root_forgetful(p, new_root, current_slot) ==
    [p EXCEPT
       !.roots_index = (p.roots_index + 1) % HISTORICAL_ROOTS_SIZE,
       !.commitment_root = new_root,
       !.commitment_root_slot = current_slot]

update_root(p, new_root, current_slot) ==
    LET next_index == (p.roots_index + 1) % HISTORICAL_ROOTS_SIZE
        stored_roots == [p.historical_roots EXCEPT ![p.roots_index] = p.commitment_root]
        stored_slots == [p.historical_roots_slots EXCEPT ![p.roots_index] = p.commitment_root_slot]
    IN [p EXCEPT
          !.historical_roots = [stored_roots EXCEPT ![next_index] = ZERO_ROOT],
          !.historical_roots_slots = [stored_slots EXCEPT ![next_index] = 0],
          !.roots_index = next_index,
          !.commitment_root = new_root,
          !.commitment_root_slot = current_slot]

(***************************************************************************)
(* HistoricalRoots (state/historical_roots.rs).                            *)
(***************************************************************************)
ExtIdx == 0..(HISTORICAL_ROOTS_CAPACITY - 1)

contains_with_expiration(h, root, current_slot) ==
    IF root = ZERO_ROOT
    THEN FALSE
    ELSE LET hits == {i \in ExtIdx : h.roots[i] = root} IN
         IF hits = {}
         THEN FALSE
         ELSE LET i == CHOOSE k \in hits : \A m \in hits : k <= m
                  root_slot == h.slots[i]
              IN IF root_slot = 0
                 THEN FALSE
                 ELSE saturating_sub(current_slot, root_slot) <= MAX_ROOT_AGE_SLOTS

\* faulty variant: the clearing is done before the index advances, on the
\* slot just written
push_clears_stored(h, root, current_slot) ==
    [h EXCEPT
       !.roots[h.roots_index] = ZERO_ROOT,
       !.slots[h.roots_index] = 0,
       !.roots_index = (h.roots_index + 1) % HISTORICAL_ROOTS_CAPACITY]

push(h, root, current_slot) ==
    LET next_index == (h.roots_index + 1) % HISTORICAL_ROOTS_CAPACITY
        stored_roots == [h.roots EXCEPT ![h.roots_index] = root]
        stored_slots == [h.slots EXCEPT ![h.roots_index] = current_slot]
    IN [h EXCEPT
          !.roots = [stored_roots EXCEPT ![next_index] = ZERO_ROOT],
          !.slots = [stored_slots EXCEPT ![next_index] = 0],
          !.roots_index = next_index]

\* HistoricalRoots::init on the zeroed account created by init_historical_roots
init_ext(pool_key) ==
    [exists |-> TRUE, pool |-> pool_key, roots_index |-> 0,
     roots |-> [i \in ExtIdx |-> ZERO_ROOT], slots |-> [i \in ExtIdx |-> 0]]

\* the address before init_historical_roots: no account
NoExt ==
    [exists |-> FALSE, pool |-> THIS_POOL, roots_index |-> 0,
     roots |-> [i \in ExtIdx |-> ZERO_ROOT], slots |-> [i \in ExtIdx |-> 0]]

(***************************************************************************)
(* NullifierEntry (state/nullifier.rs): one PDA per nullifier seed.        *)
(***************************************************************************)
NoEntry == [exists |-> FALSE, nullifier |-> ZERO_ROOT, slot |-> 0]

\* faulty variant: the entry carries no creation slot
Entry_unstamped(n, s) == [exists |-> TRUE, nullifier |-> n, slot |-> 0]

Entry(n, s) == [exists |-> TRUE, nullifier |-> n, slot |-> s]

(***************************************************************************)
(* initialize (instructions/initialize.rs).                                *)
(***************************************************************************)
initialize(authority, vk_hash, per_authority, current_slot) ==
    [authority |-> authority,
     per_authority |-> per_authority,
     token_mint |-> POOL_MINT,
     vk_hash |-> vk_hash,
     commitment_root |-> ZERO_ROOT,
     commitment_root_slot |-> current_slot,
     historical_roots |-> [i \in InlineIdx |-> ZERO_ROOT],
     historical_roots_slots |-> [i \in InlineIdx |-> 0],
     roots_index |-> 0,
     total_shielded |-> 0,
     paused |-> FALSE,
     emergency_mode |-> FALSE,
     total_deposits |-> 0,
     total_withdrawals |-> 0,
     total_nullifiers |-> 0,
     last_nullifiers_root |-> ZERO_ROOT]

(***************************************************************************)
(* The account state an instruction works on, and what it returns.         *)
(***************************************************************************)
Accounts == [pool |-> pool, ext |-> ext, nullifier_entries |-> nullifier_entries, vault |-> vault]

Ok(st) == [err |-> "Ok", st |-> st]
Err(e, st) == [err |-> e, st |-> st]

(***************************************************************************)
(* SPL Token transfer (token::transfer, classic Token program): moves      *)
(* exactly `amount`; fails when the signing authority does not own the     *)
(* source, the source holds less than `amount`, or the destination would   *)
(* exceed u64.  Returns the source and destination balances.               *)
(***************************************************************************)
token_transfer(from_amount, to_amount, amount, authority_owns) ==
    IF ~authority_owns
    THEN [ok |-> FALSE, from |-> from_amount, to |-> to_amount]
    ELSE IF from_amount < amount
    THEN [ok |-> FALSE, from |-> from_amount, to |-> to_amount]
    ELSE IF ~checked_add(to_amount, amount).some
    THEN [ok |-> FALSE, from |-> from_amount, to |-> to_amount]
    ELSE [ok |-> TRUE, from |-> from_amount - amount, to |-> to_amount + amount]

(***************************************************************************)
(* deposit (instructions/deposit.rs).                                      *)
(*   in: amount, proof_data [proof, deposit_amount, old_root, new_root],   *)
(*       user_token_account [owner, mint, amount], verification_key,       *)
(*       depositor, ext_given (the optional historical_roots account)      *)
(***************************************************************************)
\* faulty variant: the pool account carries no `!pool.paused` constraint
deposit_accounts_ungated(st, in) ==
    IF in.user_token_account.mint # st.pool.token_mint THEN "InvalidMint"
    ELSE IF in.verification_key.pool # THIS_POOL THEN "InvalidVerificationKey"
    ELSE IF in.verification_key.circuit_id # DEPOSIT THEN "InvalidVerificationKey"
    ELSE IF in.ext_given /\ ~st.ext.exists THEN "AccountNotInitialized"
    ELSE "Ok"

\* #[derive(Accounts)] struct Deposit: constraints in declaration order
deposit_accounts(st, in) ==
    IF st.pool.paused THEN "PoolPaused"
    ELSE IF in.user_token_account.mint # st.pool.token_mint THEN "InvalidMint"
    ELSE IF in.verification_key.pool # THIS_POOL THEN "InvalidVerificationKey"
    ELSE IF in.verification_key.circuit_id # DEPOSIT THEN "InvalidVerificationKey"
    ELSE IF in.ext_given /\ ~st.ext.exists THEN "AccountNotInitialized"
    ELSE "Ok"

deposit_handler(st, in, current_slot) ==
    LET p == st.pool IN
    IF ~(in.amount >= MIN_DEPOSIT_SPL_UNITS) THEN Err("DepositBelowMinimum", st)
    ELSE IF in.proof_data.deposit_amount # u64_to_field(in.amount) THEN Err("InvalidProof", st)
    ELSE IF in.proof_data.old_root # p.commitment_root THEN Err("InvalidMerkleRoot", st)
    ELSE IF p.vk_hash # keccak_vk(in.verification_key) THEN Err("VerificationKeyHashMismatch", st)
    ELSE IF ~cpi_verify(in.proof_data.proof) THEN Err("VerifierError", st)
    ELSE
    LET vault_balance_before == st.vault
        tr == token_transfer(in.user_token_account.amount, st.vault, in.amount,
                             in.user_token_account.owner = in.depositor)
    IN
    IF ~tr.ok THEN Err("TokenError", st)
    ELSE
    LET st1 == [st EXCEPT !.vault = tr.to]
        vault_balance_after == st1.vault
        actual_transferred == checked_sub(vault_balance_after, vault_balance_before)
    IN
    IF ~actual_transferred.some THEN Err("Underflow", st1)
    ELSE IF actual_transferred.val # in.amount THEN Err("InvalidTransferAmount", st1)
    ELSE
    LET old_root == p.commitment_root
        p1 == update_root(p, in.proof_data.new_root, current_slot)
        st2 == [st1 EXCEPT !.pool = p1]
        shielded == checked_add(p1.total_shielded, actual_transferred.val)
    IN
    IF ~shielded.some THEN Err("Overflow", st2)
    ELSE
    LET p2 == [p1 EXCEPT !.total_shielded = shielded.val]
        st3 == [st2 EXCEPT !.pool = p2]
        deposits == checked_add(p2.total_deposits, 1)
    IN
    IF ~deposits.some THEN Err("Overflow", st3)
    ELSE
    LET p3 == [p2 EXCEPT !.total_deposits = deposits.val]
        st4 == [st3 EXCEPT !.pool = p3]
    IN
    IF in.ext_given
    THEN IF st4.ext.pool # THIS_POOL
         THEN Err("InvalidVerificationKey", st4)
         ELSE Ok([st4 EXCEPT !.ext = push(st4.ext, old_root, current_slot)])
    ELSE Ok(st4)

deposit(st, in, current_slot) ==
    LET e == deposit_accounts(st, in) IN
    IF e # "Ok" THEN Err(e, st) ELSE deposit_handler(st, in, current_slot)

(***************************************************************************)
(* withdraw (instructions/withdraw.rs).                                    *)
(*   in: proof_data [proof, amount, recipient, nullifier, old_root,        *)
(*       new_root], recipient, recipient_token_account [owner, mint],      *)
(*       verification_key, ext_given                                       *)
(***************************************************************************)
\* faulty variant (Anchor `init_if_needed`): an address in use is taken over
init_if_needed_nullifier_entry(st, nullifier) ==
    Ok([st EXCEPT !.nullifier_entries[nullifier] = Entry(ZERO_ROOT, 0)])

\* Anchor `init`: create the PDA at its seeds; the system program refuses an
\* address already in use
init_nullifier_entry(st, nullifier) ==
    IF st.nullifier_entries[nullifier].exists
    THEN Err("AccountAlreadyInUse", st)
    ELSE Ok([st EXCEPT !.nullifier_entries[nullifier] = Entry(ZERO_ROOT, 0)])

\* #[derive(Accounts)] struct Withdraw: constraints in declaration order
withdraw_accounts(st, in) ==
    IF st.pool.paused THEN Err("PoolPaused", st)
    ELSE IF in.recipient_token_account.mint # st.pool.token_mint THEN Err("InvalidMint", st)
    ELSE
    LET created == init_nullifier_entry(st, in.proof_data.nullifier) IN
    IF created.err # "Ok" THEN created
    ELSE IF in.verification_key.pool # THIS_POOL THEN Err("InvalidVerificationKey", created.st)
    ELSE IF in.verification_key.circuit_id # WITHDRAW THEN Err("InvalidVerificationKey", created.st)
    ELSE IF in.ext_given /\ ~st.ext.exists THEN Err("AccountNotInitialized", created.st)
    ELSE created

withdraw_handler(st, in, current_slot) ==
    LET p == st.pool
        nullifier == in.proof_data.nullifier
        proof_recipient == in.proof_data.recipient
    IN
    IF in.recipient # proof_recipient THEN Err("InvalidRecipient", st)
    ELSE
    LET amount == field_to_u64(in.proof_data.amount) IN
    IF ~amount.ok THEN Err("InvalidProof", st)
    ELSE
    LET root_valid_in_pool == is_valid_root_with_expiration(p, in.proof_data.old_root, current_slot)
        ext_owned == ~in.ext_given \/ st.ext.pool = THIS_POOL
        root_valid_in_extended ==
            IF in.ext_given
            THEN contains_with_expiration(st.ext, in.proof_data.old_root, current_slot)
            ELSE FALSE
    IN
    IF ~ext_owned THEN Err("InvalidVerificationKey", st)
    ELSE IF ~(root_valid_in_pool \/ root_valid_in_extended) THEN Err("MerkleRootExpired", st)
    ELSE IF p.vk_hash # keccak_vk(in.verification_key) THEN Err("VerificationKeyHashMismatch", st)
    ELSE IF ~cpi_verify(in.proof_data.proof) THEN Err("VerifierError", st)
    ELSE
    LET st1 == [st EXCEPT !.nullifier_entries[nullifier] = Entry(nullifier, current_slot)] IN
    IF ~(p.total_shielded >= amount.val) THEN Err("InsufficientPoolBalance", st1)
    ELSE IF ~(st1.vault >= amount.val) THEN Err("InsufficientVaultBalance", st1)
    ELSE
    LET tr == token_transfer(st1.vault, 0, amount.val, TRUE) IN
    IF ~tr.ok THEN Err("TokenError", st1)
    ELSE
    LET p1 == update_root(p, in.proof_data.new_root, current_slot)
        st2 == [st1 EXCEPT !.vault = tr.from, !.pool = p1]
        shielded == checked_sub(p1.total_shielded, amount.val)
    IN
    IF ~shielded.some THEN Err("Underflow", st2)
    ELSE
    LET p2 == [p1 EXCEPT !.total_shielded = shielded.val]
        withdrawals == checked_add(p2.total_withdrawals, 1)
    IN
    IF ~withdrawals.some THEN Err("Overflow", [st2 EXCEPT !.pool = p2])
    ELSE
    LET p3 == [p2 EXCEPT !.total_withdrawals = withdrawals.val]
        nullifiers == checked_add(p3.total_nullifiers, 1)
    IN
    IF ~nullifiers.some THEN Err("Overflow", [st2 EXCEPT !.pool = p3])
    ELSE Ok([st2 EXCEPT !.pool = [p3 EXCEPT !.total_nullifiers = nullifiers.val]])

withdraw(st, in, current_slot) ==
    LET a == withdraw_accounts(st, in) IN
    IF a.err # "Ok" THEN a ELSE withdraw_handler(a.st, in, current_slot)

(***************************************************************************)
(* settle_batch (instructions/settle_batch.rs).                            *)
(*   in: proof_data [proof, old_root, new_root, nullifiers_root,           *)
(*       nullifier_count], verification_key, per_authority                 *)
(***************************************************************************)
\* faulty variant: the pool account carries no per_authority constraint
settle_batch_accounts_unsigned(st, in) ==
    IF st.pool.paused THEN "PoolPaused"
    ELSE IF in.verification_key.pool # THIS_POOL THEN "InvalidVerificationKey"
    ELSE IF in.verification_key.circuit_id # BATCH_SETTLEMENT THEN "InvalidVerificationKey"
    ELSE "Ok"

settle_batch_accounts(st, in) ==
    IF st.pool.paused THEN "PoolPaused"
    ELSE IF st.pool.per_authority # in.per_authority THEN "Unauthorized"
    ELSE IF in.verification_key.pool # THIS_POOL THEN "InvalidVerificationKey"
    ELSE IF in.verification_key.circuit_id # BATCH_SETTLEMENT THEN "InvalidVerificationKey"
    ELSE "Ok"

\* faulty variant: the batch's nullifiers are not counted
settle_batch_handler_uncounted(st, in, current_slot) ==
    LET p == st.pool
        nullifier_count == field_to_u32(in.proof_data.nullifier_count)
    IN
    IF ~nullifier_count.ok THEN Err("InvalidProof", st)
    ELSE IF in.proof_data.old_root # p.commitment_root THEN Err("InvalidMerkleRoot", st)
    ELSE IF ~cpi_verify(in.proof_data.proof) THEN Err("VerifierError", st)
    ELSE
    LET p1 == [p EXCEPT !.last_nullifiers_root = in.proof_data.nullifiers_root] IN
    Ok([st EXCEPT !.pool = update_root(p1, in.proof_data.new_root, current_slot)])

settle_batch_handler(st, in, current_slot) ==
    LET p == st.pool
        nullifier_count == field_to_u32(in.proof_data.nullifier_count)
    IN
    IF ~nullifier_count.ok THEN Err("InvalidProof", st)
    ELSE IF in.proof_data.old_root # p.commitment_root THEN Err("InvalidMerkleRoot", st)
    ELSE IF ~cpi_verify(in.proof_data.proof) THEN Err("VerifierError", st)
    ELSE
    LET p1 == [p EXCEPT !.last_nullifiers_root = in.proof_data.nullifiers_root]
        nullifiers == checked_add(p1.total_nullifiers, nullifier_count.val)
    IN
    IF ~nullifiers.some THEN Err("Overflow", [st EXCEPT !.pool = p1])
    ELSE
    LET p2 == [p1 EXCEPT !.total_nullifiers = nullifiers.val] IN
    Ok([st EXCEPT !.pool = update_root(p2, in.proof_data.new_root, current_slot)])

settle_batch(st, in, current_slot) ==
    LET e == settle_batch_accounts(st, in) IN
    IF e # "Ok" THEN Err(e, st) ELSE settle_batch_handler(st, in, current_slot)

(***************************************************************************)
(* record_nullifier (instructions/record_nullifier.rs).                    *)
(*   in: nullifier, nullifiers_root, merkle_proof, path_indices            *)
(***************************************************************************)
\* keccak::hash(left ++ right): collision-free, never the all-zero digest
keccak_pair(left, right) == ((left + right) * (left + right + 1)) \div 2 + right + 1

RECURSIVE merkle_fold(_, _, _, _)
merkle_fold(current, proof, path_indices, i) ==
    IF i > Len(proof)
    THEN current
    ELSE LET sibling == proof[i]
             is_right == IF i <= Len(path_indices) THEN path_indices[i] # 0 ELSE FALSE
         IN merkle_fold(IF is_right
                        THEN keccak_pair(sibling, current)
                        ELSE keccak_pair(current, sibling),
                        proof, path_indices, i + 1)

\* faulty variant: the deprecated compute_merkle_root, which orders the two
\* nodes of a level by value and ignores the path indices
RECURSIVE merkle_fold_by_value(_, _, _)
merkle_fold_by_value(current, proof, i) ==
    IF i > Len(proof)
    THEN current
    ELSE LET sibling == proof[i] IN
         merkle_fold_by_value(IF current <= sibling
                              THEN keccak_pair(current, sibling)
                              ELSE keccak_pair(sibling, current),
                              proof, i + 1)

compute_merkle_root(leaf, proof, path_indices) == merkle_fold_by_value(leaf, proof, 1)

\* faulty variant: path index 0 puts the sibling on the left
RECURSIVE merkle_fold_mirrored(_, _, _, _)
merkle_fold_mirrored(current, proof, path_indices, i) ==
    IF i > Len(proof)
    THEN current
    ELSE LET sibling == proof[i]
             is_right == IF i <= Len(path_indices) THEN path_indices[i] # 0 ELSE FALSE
         IN merkle_fold_mirrored(IF is_right
                                 THEN keccak_pair(current, sibling)
                                 ELSE keccak_pair(sibling, current),
                                 proof, path_indices, i + 1)

compute_merkle_root_mirrored(leaf, proof, path_indices) ==
    merkle_fold_mirrored(leaf, proof, path_indices, 1)

compute_merkle_root_with_indices(leaf, proof, path_indices) ==
    merkle_fold(leaf, proof, path_indices, 1)

\* no call of compute_merkle_root_with_indices on its own has been made
NoFold == [call |-> "none", leaf |-> ZERO_ROOT, proof |-> <<>>, path_indices |-> <<>>,
           root |-> ZERO_ROOT]

\* faulty variant: the claimed root is not compared with last_nullifiers_root
record_nullifier_handler_any_root(st, in, current_slot) ==
    IF Len(in.merkle_proof) # Len(in.path_indices) THEN Err("InvalidNullifierProof", st)
    ELSE
    LET computed_root ==
            compute_merkle_root_with_indices(in.nullifier, in.merkle_proof, in.path_indices)
    IN
    IF computed_root # in.nullifiers_root THEN Err("InvalidNullifierProof", st)
    ELSE Ok([st EXCEPT !.nullifier_entries[in.nullifier] = Entry(in.nullifier, current_slot)])

record_nullifier_handler(st, in, current_slot) ==
    LET p == st.pool IN
    IF p.last_nullifiers_root # in.nullifiers_root THEN Err("InvalidNullifierProof", st)
    ELSE IF Len(in.merkle_proof) # Len(in.path_indices) THEN Err("InvalidNullifierProof", st)
    ELSE
    LET computed_root ==
            compute_merkle_root_with_indices(in.nullifier, in.merkle_proof, in.path_indices)
    IN
    IF computed_root # in.nullifiers_root THEN Err("InvalidNullifierProof", st)
    ELSE Ok([st EXCEPT !.nullifier_entries[in.nullifier] = Entry(in.nullifier, current_slot)])

record_nullifier(st, in, current_slot) ==
    LET created == init_nullifier_entry(st, in.nullifier) IN
    IF created.err # "Ok" THEN created
    ELSE record_nullifier_handler(created.st, in, current_slot)

(***************************************************************************)
(* cleanup_nullifier (instructions/cleanup_nullifier.rs).                  *)
(*   in: nullifier (the entry account passed), rent_recipient              *)
(***************************************************************************)
cleanup_nullifier_accounts(st, in) ==
    IF ~st.nullifier_entries[in.nullifier].exists THEN "AccountNotInitialized"
    ELSE IF in.rent_recipient # st.pool.authority THEN "Unauthorized"
    ELSE "Ok"

\* faulty variant: an entry must be older than the threshold
cleanup_nullifier_handler_strict(st, in, current_slot) ==
    LET nullifier_entry == st.nullifier_entries[in.nullifier]
        nullifier_age == saturating_sub(current_slot, nullifier_entry.slot)
    IN
    IF ~(nullifier_age > MIN_NULLIFIER_AGE_FOR_CLEANUP) THEN Err("Unauthorized", st)
    ELSE Ok([st EXCEPT !.nullifier_entries[in.nullifier] = NoEntry])

cleanup_nullifier_handler(st, in, current_slot) ==
    LET nullifier_entry == st.nullifier_entries[in.nullifier]
        nullifier_age == saturating_sub(current_slot, nullifier_entry.slot)
    IN
    IF ~(nullifier_age >= MIN_NULLIFIER_AGE_FOR_CLEANUP) THEN Err("Unauthorized", st)
    ELSE \* `close = rent_recipient` runs when the handler returns Ok
         Ok([st EXCEPT !.nullifier_entries[in.nullifier] = NoEntry])

cleanup_nullifier(st, in, current_slot) ==
    LET e == cleanup_nullifier_accounts(st, in) IN
    IF e # "Ok" THEN Err(e, st) ELSE cleanup_nullifier_handler(st, in, current_slot)

(***************************************************************************)
(* set_paused, set_emergency_mode (instructions/set_paused.rs).            *)
(***************************************************************************)
\* faulty variant: the pool account carries no `has_one = authority`
set_paused_unsigned(st, authority, paused) ==
    Ok([st EXCEPT !.pool.paused = paused])

set_paused_handler(st, paused) ==
    Ok([st EXCEPT !.pool.paused = paused])

set_paused(st, authority, paused) ==
    IF st.pool.authority # authority THEN Err("Unauthorized", st)
    ELSE set_paused_handler(st, paused)

set_emergency_mode_handler(st, emergency_mode) ==
    IF emergency_mode /\ ~st.pool.paused THEN Err("PoolPaused", st)
    ELSE Ok([st EXCEPT !.pool.emergency_mode = emergency_mode])

set_emergency_mode(st, authority, emergency_mode) ==
    IF st.pool.authority # authority THEN Err("Unauthorized", st)
    ELSE set_emergency_mode_handler(st, emergency_mode)

(***************************************************************************)
(* emergency_withdraw (instructions/emergency_withdraw.rs).                *)
(*   in: amount, authority, recipient_token_account [owner, mint]          *)
(***************************************************************************)
\* faulty variant: the authority account carries no constraint
emergency_withdraw_accounts_unsigned(st, in) ==
    IF ~st.pool.paused THEN "PoolPaused"
    ELSE IF ~st.pool.emergency_mode THEN "EmergencyModeNotActive"
    ELSE IF in.recipient_token_account.mint # st.pool.token_mint THEN "InvalidMint"
    ELSE "Ok"

emergency_withdraw_accounts(st, in) ==
    IF ~st.pool.paused THEN "PoolPaused"
    ELSE IF ~st.pool.emergency_mode THEN "EmergencyModeNotActive"
    ELSE IF in.recipient_token_account.mint # st.pool.token_mint THEN "InvalidMint"
    ELSE IF in.authority # st.pool.authority THEN "Unauthorized"
    ELSE "Ok"

\* faulty variant: the withdrawal is also counted as a spent nullifier, as
\* withdraw counts it
emergency_withdraw_handler_as_withdraw(st, in) ==
    LET p == st.pool IN
    IF ~(p.total_shielded >= in.amount) THEN Err("InsufficientPoolBalance", st)
    ELSE IF ~(st.vault >= in.amount) THEN Err("InsufficientVaultBalance", st)
    ELSE
    LET tr == token_transfer(st.vault, 0, in.amount, TRUE) IN
    IF ~tr.ok THEN Err("TokenError", st)
    ELSE
    LET st1 == [st EXCEPT !.vault = tr.from]
        shielded == checked_sub(p.total_shielded, in.amount)
    IN
    IF ~shielded.some THEN Err("Underflow", st1)
    ELSE
    LET p1 == [p EXCEPT !.total_shielded = shielded.val]
        withdrawals == checked_add(p1.total_withdrawals, 1)
    IN
    IF ~withdrawals.some THEN Err("Overflow", [st1 EXCEPT !.pool = p1])
    ELSE
    LET p2 == [p1 EXCEPT !.total_withdrawals = withdrawals.val]
        nullifiers == checked_add(p2.total_nullifiers, 1)
    IN
    IF ~nullifiers.some THEN Err("Overflow", [st1 EXCEPT !.pool = p2])
    ELSE Ok([st1 EXCEPT !.pool = [p2 EXCEPT !.total_nullifiers = nullifiers.val]])

\* faulty variant: the two balance requirements are missing
emergency_withdraw_handler_unguarded(st, in) ==
    LET p == st.pool
        tr == token_transfer(st.vault, 0, in.amount, TRUE)
    IN
    IF ~tr.ok THEN Err("TokenError", st)
    ELSE
    LET st1 == [st EXCEPT !.vault = tr.from]
        shielded == checked_sub(p.total_shielded, in.amount)
    IN
    IF ~shielded.some THEN Err("Underflow", st1)
    ELSE
    LET p1 == [p EXCEPT !.total_shielded = shielded.val]
        withdrawals == checked_add(p1.total_withdrawals, 1)
    IN
    IF ~withdrawals.some THEN Err("Overflow", [st1 EXCEPT !.pool = p1])
    ELSE Ok([st1 EXCEPT !.pool = [p1 EXCEPT !.total_withdrawals = withdrawals.val]])

\* faulty variant: the amount paid out is not taken off total_shielded
emergency_withdraw_handler_unposted(st, in) ==
    LET p == st.pool IN
    IF ~(p.total_shielded >= in.amount) THEN Err("InsufficientPoolBalance", st)
    ELSE IF ~(st.vault >= in.amount) THEN Err("InsufficientVaultBalance", st)
    ELSE
    LET tr == token_transfer(st.vault, 0, in.amount, TRUE) IN
    IF ~tr.ok THEN Err("TokenError", st)
    ELSE
    LET st1 == [st EXCEPT !.vault = tr.from]
        withdrawals == checked_add(p.total_withdrawals, 1)
    IN
    IF ~withdrawals.some THEN Err("Overflow", st1)
    ELSE Ok([st1 EXCEPT !.pool = [p EXCEPT !.total_withdrawals = withdrawals.val]])

emergency_withdraw_handler(st, in) ==
    LET p == st.pool IN
    IF ~(p.total_shielded >= in.amount) THEN Err("InsufficientPoolBalance", st)
    ELSE IF ~(st.vault >= in.amount) THEN Err("InsufficientVaultBalance", st)
    ELSE
    LET tr == token_transfer(st.vault, 0, in.amount, TRUE) IN
    IF ~tr.ok THEN Err("TokenError", st)
    ELSE
    LET st1 == [st EXCEPT !.vault = tr.from]
        shielded == checked_sub(p.total_shielded, in.amount)
    IN
    IF ~shielded.some THEN Err("Underflow", st1)
    ELSE
    LET p1 == [p EXCEPT !.total_shielded = shielded.val]
        withdrawals == checked_add(p1.total_withdrawals, 1)
    IN
    IF ~withdrawals.some THEN Err("Overflow", [st1 EXCEPT !.pool = p1])
    ELSE Ok([st1 EXCEPT !.pool = [p1 EXCEPT !.total_withdrawals = withdrawals.val]])

emergency_withdraw(st, in) ==
    LET e == emergency_withdraw_accounts(st, in) IN
    IF e # "Ok" THEN Err(e, st) ELSE emergency_withdraw_handler(st, in)

(***************************************************************************)
(* init_historical_roots (instructions/init_historical_roots.rs).          *)
(***************************************************************************)
init_historical_roots(st, authority) ==
    IF st.pool.authority # authority THEN Err("Unauthorized", st)
    ELSE IF st.ext.exists THEN Err("AccountAlreadyInUse", st)
    ELSE Ok([st EXCEPT !.ext = init_ext(THIS_POOL)])

(***************************************************************************)
(* The host's transaction semantics (Result<()> of the #[program] entry    *)
(* points): the accounts as the instruction left them are stored iff it    *)
(* returned Ok; on Err the transaction is rolled back.                     *)
(***************************************************************************)
\* faulty variant: the writes of a failed instruction are kept
committed_partial(st, out) == out.st

committed(st, out) == IF out.err = "Ok" THEN out.st ELSE st

\* the record of the last instruction that succeeded (a failed transaction
\* leaves no trace): what it emitted, and the accounts and verdict it ran with
\* (under SpecNullifiers, for settle_batch also the last_nullifiers_root it
\* replaced; under SpecChain, for the three transitions also the old_root their
\* bundle cited; under SpecSolvency, for deposit, withdraw and
\* emergency_withdraw also the amount moved)
Result(op) ==
    [op |-> op, nullifier |-> ZERO_ROOT, verified |-> FALSE,
     recipient |-> "", dest_owner |-> "", replaced |-> ZERO_ROOT, old_root |-> ZERO_ROOT,
     amount |-> 0]

Store(st) ==
    /\ pool' = st.pool
    /\ ext' = st.ext
    /\ nullifier_entries' = st.nullifier_entries
    /\ vault' = st.vault

\* the roots the withdraw root check accepts at slot `now`, in either tier
valid_roots(st, now) ==
    {r \in Roots :
        \/ is_valid_root_with_expiration(st.pool, r, now)
        \/ st.ext.exists /\ contains_with_expiration(st.ext, r, now)}

\* the history after the successful instruction recorded by res
Spending(res, now) ==
    IF res.op \in {"withdraw", "record_nullifier"} /\ ~first_spend[res.nullifier].reclaimed
    THEN [first_spend EXCEPT ![res.nullifier].roots = valid_roots(Accounts, now)]
    ELSE IF res.op = "cleanup_nullifier"
    THEN [first_spend EXCEPT ![res.nullifier].reclaimed = TRUE]
    ELSE first_spend

\* the sums after the successful instruction recorded by res
Posting(res) ==
    IF res.op \in DOMAIN ledger
    THEN [ledger EXCEPT ![res.op] = @ + res.amount]
    ELSE ledger

\* A transaction runs at a slot `now` not before the last one; `slot` is the
\* slot of the last successful transaction.
Run(out, res, now) ==
    /\ now >= slot
    /\ Store(committed(Accounts, out))
    /\ result' = IF out.err = "Ok" THEN res ELSE result
    /\ steps' = IF out.err = "Ok" THEN steps + 1 ELSE steps
    /\ slot' = IF out.err = "Ok" THEN now ELSE slot
    /\ first_spend' = IF out.err = "Ok" THEN Spending(res, now) ELSE first_spend
    /\ emergency_used' = (emergency_used \/ (out.err = "Ok" /\ res.op = "emergency_withdraw"))
    /\ ledger' = IF out.err = "Ok" THEN Posting(res) ELSE ledger
    /\ UNCHANGED <<codec, merkle>>

(***************************************************************************)
(* One step per instruction.                                               *)
(***************************************************************************)
DepositStep(in, now) ==
    Run(deposit(Accounts, in, now),
        [Result("deposit") EXCEPT
            !.verified = cpi_verify(in.proof_data.proof)],
        now)

WithdrawStep(in, now) ==
    Run(withdraw(Accounts, in, now),
        [Result("withdraw") EXCEPT
            !.nullifier = in.proof_data.nullifier,
            !.verified = cpi_verify(in.proof_data.proof),
            !.recipient = in.proof_data.recipient,
            !.dest_owner = in.recipient_token_account.owner],
        now)

SettleBatchStep(in, now) ==
    Run(settle_batch(Accounts, in, now),
        [Result("settle_batch") EXCEPT
            !.verified = cpi_verify(in.proof_data.proof)],
        now)

RecordNullifierStep(in, now) ==
    Run(record_nullifier(Accounts, in, now),
        [Result("record_nullifier") EXCEPT !.nullifier = in.nullifier],
        now)

CleanupNullifierStep(in, now) ==
    Run(cleanup_nullifier(Accounts, in, now),
        [Result("cleanup_nullifier") EXCEPT
            !.nullifier = in.nullifier,
            !.recipient = in.rent_recipient],
        now)

SetPausedStep(authority, paused, now) ==
    Run(set_paused(Accounts, authority, paused), Result("set_paused"), now)

SetEmergencyModeStep(authority, emergency_mode, now) ==
    Run(set_emergency_mode(Accounts, authority, emergency_mode),
        Result("set_emergency_mode"), now)

EmergencyWithdrawStep(in, now) ==
    Run(emergency_withdraw(Accounts, in),
        Result("emergency_withdraw"),
        now)

InitHistoricalRootsStep(authority, now) ==
    Run(init_historical_roots(Accounts, authority), Result("init_historical_roots"), now)

(***************************************************************************)
(* Inputs.  A bundle is built well-formed and then varied in one place.    *)
(***************************************************************************)
DepositIn(amount, old_root, new_root, ext_given) ==
    [amount |-> amount,
     proof_data |-> [proof |-> PROOF_OF_INPUTS, deposit_amount |-> u64_to_field(amount),
                     old_root |-> old_root, new_root |-> new_root],
     user_token_account |-> [owner |-> USER, mint |-> POOL_MINT, amount |-> U64_MAX],
     verification_key |-> VkOf(DEPOSIT),
     depositor |-> USER,
     ext_given |-> ext_given]

DepositVariants(b) ==
    {b,
     [b EXCEPT !.proof_data.proof = PROOF_OF_OTHER],
     [b EXCEPT !.proof_data.proof = PROOF_MALFORMED],
     [b EXCEPT !.proof_data.deposit_amount = Field(1, b.amount)],
     [b EXCEPT !.proof_data.deposit_amount = Field(0, (b.amount + 1) % (U64_MAX + 1))],
     [b EXCEPT !.user_token_account.mint = OTHER_MINT],
     [b EXCEPT !.user_token_account.amount = 0],
     [b EXCEPT !.depositor = ADMIN],
     [b EXCEPT !.verification_key.pool = OTHER_POOL],
     [b EXCEPT !.verification_key.circuit_id = WITHDRAW],
     [b EXCEPT !.verification_key.body = "vk2"]}

WithdrawIn(amount, nullifier, old_root, new_root, ext_given) ==
    [proof_data |-> [proof |-> PROOF_OF_INPUTS, amount |-> u64_to_field(amount),
                     recipient |-> USER, nullifier |-> nullifier,
                     old_root |-> old_root, new_root |-> new_root],
     recipient |-> USER,
     recipient_token_account |-> [owner |-> USER, mint |-> POOL_MINT],
     verification_key |-> VkOf(WITHDRAW),
     ext_given |-> ext_given]

WithdrawVariants(b) ==
    {b,
     [b EXCEPT !.proof_data.proof = PROOF_OF_OTHER],
     [b EXCEPT !.proof_data.proof = PROOF_MALFORMED],
     [b EXCEPT !.proof_data.amount = Field(1, b.proof_data.amount.lo)],
     [b EXCEPT !.recipient = ADMIN],
     [b EXCEPT !.recipient_token_account.owner = ADMIN],
     [b EXCEPT !.recipient_token_account.mint = OTHER_MINT],
     [b EXCEPT !.verification_key.pool = OTHER_POOL],
     [b EXCEPT !.verification_key.circuit_id = DEPOSIT],
     [b EXCEPT !.verification_key.body = "vk2"]}

SettleIn(old_root, new_root, nullifiers_root, count) ==
    [proof_data |-> [proof |-> PROOF_OF_INPUTS, old_root |-> old_root, new_root |-> new_root,
                     nullifiers_root |-> nullifiers_root,
                     nullifier_count |-> Field(0, count)],
     verification_key |-> VkOf(BATCH_SETTLEMENT),
     per_authority |-> PER]

SettleVariants(b) ==
    {b,
     [b EXCEPT !.proof_data.proof = PROOF_OF_OTHER],
     [b EXCEPT !.proof_data.proof = PROOF_MALFORMED],
     [b EXCEPT !.proof_data.nullifier_count = Field(1, 0)],
     [b EXCEPT !.proof_data.nullifier_count = Field(0, U32_MAX + 1)],
     [b EXCEPT !.per_authority = USER],
     [b EXCEPT !.verification_key.pool = OTHER_POOL],
     [b EXCEPT !.verification_key.circuit_id = DEPOSIT],
     [b EXCEPT !.verification_key.body = "vk2"]}

\* well-formed bundles, and the variants of those with a fixed new root
DepositInputs ==
    {DepositIn(a, o, n, e) :
        a \in {0, MIN_DEPOSIT_SPL_UNITS}, o \in Roots, n \in Roots, e \in BOOLEAN}
    \cup UNION {DepositVariants(DepositIn(MIN_DEPOSIT_SPL_UNITS, o, MaxRoot, FALSE)) : o \in Roots}

WithdrawInputs ==
    {WithdrawIn(a, x, o, n, e) :
        a \in {0, 1}, x \in Nullifiers, o \in Roots, n \in Roots, e \in BOOLEAN}
    \cup UNION {WithdrawVariants(WithdrawIn(0, MaxNullifier, o, MaxRoot, FALSE)) : o \in Roots}

SettleInputs ==
    {SettleIn(o, n, r, c) :
        o \in Roots, n \in Roots, r \in {ZERO_ROOT, 1}, c \in {0, U32_MAX}}
    \cup UNION {SettleVariants(SettleIn(o, MaxRoot, 1, 0)) : o \in Roots}

RecordInputs ==
    [nullifier : Nullifiers, nullifiers_root : {ZERO_ROOT, 1},
     merkle_proof : {<<>>, <<0>>}, path_indices : {<<>>, <<0>>}]

CleanupInputs == [nullifier : Nullifiers, rent_recipient : {ADMIN, USER}]

EmergencyInputs ==
    [amount : {0, 1}, authority : {ADMIN, USER},
     recipient_token_account : [owner : {USER}, mint : {POOL_MINT, OTHER_MINT}]]

Signers == {ADMIN, USER}

(***************************************************************************)
(* Spec: every instruction, with well-formed and ill-formed inputs, at     *)
(* two points in time (initialization and one cleanup age later).          *)
(***************************************************************************)
Slots == {InitSlot, InitSlot + MIN_NULLIFIER_AGE_FOR_CLEANUP}

\* a behaviour is cut after MaxSteps successful instructions
Deposit ==
    /\ steps < MaxSteps
    /\ \E in \in DepositInputs, now \in Slots : DepositStep(in, now)
Withdraw ==
    /\ steps < MaxSteps
    /\ \E in \in WithdrawInputs, now \in Slots : WithdrawStep(in, now)
SettleBatch ==
    /\ steps < MaxSteps
    /\ \E in \in SettleInputs, now \in Slots : SettleBatchStep(in, now)
RecordNullifier ==
    /\ steps < MaxSteps
    /\ \E in \in RecordInputs, now \in Slots : RecordNullifierStep(in, now)
CleanupNullifier ==
    /\ steps < MaxSteps
    /\ \E in \in CleanupInputs, now \in Slots : CleanupNullifierStep(in, now)
SetPaused ==
    /\ steps < MaxSteps
    /\ \E authority \in Signers, paused \in BOOLEAN, now \in Slots :
          SetPausedStep(authority, paused, now)
SetEmergencyMode ==
    /\ steps < MaxSteps
    /\ \E authority \in Signers, emergency_mode \in BOOLEAN, now \in Slots :
          SetEmergencyModeStep(authority, emergency_mode, now)
EmergencyWithdraw ==
    /\ steps < MaxSteps
    /\ \E in \in EmergencyInputs, now \in Slots : EmergencyWithdrawStep(in, now)
InitHistoricalRoots ==
    /\ steps < MaxSteps
    /\ \E authority \in Signers, now \in Slots : InitHistoricalRootsStep(authority, now)

\* initialize: the admin binds the pool to one verification-key digest
Init ==
    /\ slot = InitSlot
    /\ \E circuit \in {DEPOSIT, WITHDRAW} :
          pool = initialize(ADMIN, keccak_vk(VkOf(circuit)), PER, InitSlot)
    /\ ext = NoExt
    /\ nullifier_entries = [n \in Nullifiers |-> NoEntry]
    /\ vault = 0
    /\ result = Result("initialize")
    /\ steps = 0
    /\ first_spend = [n \in Nullifiers |-> [roots |-> {}, reclaimed |-> FALSE]]
    /\ emergency_used = FALSE
    /\ ledger = [deposit |-> 0, withdraw |-> 0, emergency_withdraw |-> 0]
    /\ codec = NoCall
    /\ merkle = NoFold

Next ==
    \/ Deposit
    \/ Withdraw
    \/ SettleBatch
    \/ RecordNullifier
    \/ CleanupNullifier
    \/ SetPaused
    \/ SetEmergencyMode
    \/ EmergencyWithdraw
    \/ InitHistoricalRoots

Spec == Init /\ [][Next]_vars

(***************************************************************************)
(* SpecRoots: the root chain over time.  Well-formed bundles only, at the  *)
(* slots around one root age and one cleanup age after initialization.     *)
(***************************************************************************)
RootSlots ==
    {InitSlot, InitSlot + 1, InitSlot + MAX_ROOT_AGE_SLOTS,
     InitSlot + MIN_NULLIFIER_AGE_FOR_CLEANUP}

RootsDeposit ==
    /\ steps < MaxRootSteps
    /\ \E o \in Roots, n \in Roots, e \in BOOLEAN, now \in RootSlots :
          DepositStep(DepositIn(MIN_DEPOSIT_SPL_UNITS, o, n, e), now)
RootsWithdraw ==
    /\ steps < MaxRootSteps
    /\ \E o \in Roots, n \in Roots, e \in BOOLEAN, now \in RootSlots :
          WithdrawStep(WithdrawIn(0, MaxNullifier, o, n, e), now)
RootsSettleBatch ==
    /\ steps < MaxRootSteps
    /\ \E o \in Roots, n \in Roots, now \in RootSlots :
          SettleBatchStep(SettleIn(o, n, ZERO_ROOT, 0), now)
RootsCleanupNullifier ==
    /\ steps < MaxRootSteps
    /\ \E now \in RootSlots :
          CleanupNullifierStep([nullifier |-> MaxNullifier, rent_recipient |-> ADMIN], now)
RootsInitHistoricalRoots ==
    /\ steps < MaxRootSteps
    /\ \E now \in RootSlots : InitHistoricalRootsStep(ADMIN, now)

NextRoots ==
    \/ RootsDeposit
    \/ RootsWithdraw
    \/ RootsSettleBatch
    \/ RootsCleanupNullifier
    \/ RootsInitHistoricalRoots

SpecRoots == Init /\ [][NextRoots]_vars

(***************************************************************************)
(* Properties.  A property about what an instruction would do quantifies   *)
(* over the instruction's inputs and the slots it may run at, and          *)
(* evaluates the instruction on the current accounts.                      *)
(***************************************************************************)
\* the slots an instruction may run at under Spec, seen from the current state
SlotsAhead == {now \in Slots : now >= slot}

C2_ProofGating ==
    \A now \in SlotsAhead :
        /\ \A in \in DepositInputs :
              LET out == deposit(Accounts, in, now) IN
              verify_proof(in.proof_data.proof) # "true" =>
                  out.err # "Ok" /\ committed(Accounts, out) = Accounts
        /\ \A in \in WithdrawInputs :
              LET out == withdraw(Accounts, in, now) IN
              verify_proof(in.proof_data.proof) # "true" =>
                  out.err # "Ok" /\ committed(Accounts, out) = Accounts
        /\ \A in \in SettleInputs :
              LET out == settle_batch(Accounts, in, now) IN
              verify_proof(in.proof_data.proof) # "true" =>
                  out.err # "Ok" /\ committed(Accounts, out) = Accounts

\* after a verified settlement, a bundle that fails at the verifier only: the
\* same bundle with an accepted proof succeeds
C2_Witness ==
    /\ result.op = "settle_batch"
    /\ result.verified
    /\ \E in \in SettleInputs :
          /\ verify_proof(in.proof_data.proof) = "false"
          /\ settle_batch(Accounts, in, slot).err = "VerifierError"
          /\ settle_batch(Accounts, [in EXCEPT !.proof_data.proof = PROOF_OF_INPUTS], slot).err = "Ok"

\* C3: a withdraw whose recipient argument differs from the proof's recipient
\* fails, and a successful withdraw credits a token account that belongs to
\* the recipient the proof attests.
C3_RecipientBinding ==
    /\ \A now \in SlotsAhead :
          \A in \in WithdrawInputs :
              in.recipient # in.proof_data.recipient => withdraw(Accounts, in, now).err # "Ok"
    /\ result.op = "withdraw" => result.dest_owner = result.recipient

\* C6: the all-zero root is rejected by the root check of both tiers, and no
\* withdraw citing it succeeds, in every reachable state and at every slot.
C6_ZeroRootNeverValid ==
    \A now \in SlotsAhead :
        /\ ~is_valid_root_with_expiration(pool, ZERO_ROOT, now)
        /\ ~contains_with_expiration(ext, ZERO_ROOT, now)
        /\ \A in \in WithdrawInputs :
              in.proof_data.old_root = ZERO_ROOT => withdraw(Accounts, in, now).err # "Ok"

C10_EmergencyImpliesPaused == pool.emergency_mode => pool.paused

(***************************************************************************)
(* Properties of the root chain (SpecRoots).                               *)
(***************************************************************************)
\* the slots at which a reader may query, seen from the current state
QuerySlots ==
    {now \in {s + d : s \in RootSlots, d \in {0, 1, MAX_ROOT_AGE_SLOTS, MAX_ROOT_AGE_SLOTS + 1}} :
        now >= slot}

\* stamp s is non-zero and at most MAX_ROOT_AGE_SLOTS before now
FreshStamp(s, now) == s # 0 /\ now - s <= MAX_ROOT_AGE_SLOTS

\* C4: a non-zero root is reported valid at slot now iff it is the current root
\* within MAX_ROOT_AGE_SLOTS of its commitment, or some ring-buffer entry holds
\* it with a fresh non-zero stamp; in the inline tier and in the extended tier,
\* duplicates of a root value included.
C4_RootValidity ==
    \A root \in Roots \ {ZERO_ROOT} :
        \A now \in QuerySlots :
            /\ is_valid_root_with_expiration(pool, root, now) <=>
                  \/ pool.commitment_root = root
                        /\ now - pool.commitment_root_slot <= MAX_ROOT_AGE_SLOTS
                  \/ \E i \in InlineIdx :
                        /\ pool.historical_roots[i] = root
                        /\ FreshStamp(pool.historical_roots_slots[i], now)
            /\ ext.exists =>
                  (contains_with_expiration(ext, root, now) <=>
                      \E i \in ExtIdx :
                          ext.roots[i] = root /\ FreshStamp(ext.slots[i], now))

\* the record the lookup of a tier consults for a root: the entry of lowest index
FirstEntry(roots, root) ==
    CHOOSE i \in DOMAIN roots : roots[i] = root /\ \A k \in DOMAIN roots : roots[k] = root => i <= k

C7_NoReplayAfterCleanup ==
    \A x \in Nullifiers :
        first_spend[x].reclaimed =>
            \A old_root \in first_spend[x].roots \ {ZERO_ROOT} :
                \A new_root \in Roots, e \in BOOLEAN, now \in QuerySlots :
                    withdraw(Accounts, WithdrawIn(0, x, old_root, new_root, e), now).err # "Ok"

(***************************************************************************)
(* Properties of the instructions' guards and effects (Spec).              *)
(***************************************************************************)
(***************************************************************************)
(* SpecDeposits: deposits alone.  Every deposit bundle, well-formed or     *)
(* not, with the extended root buffer created or not and the pool paused   *)
(* or not, at the slots of Spec.                                           *)
(***************************************************************************)
DepositsDeposit ==
    /\ steps < MaxDepositSteps
    /\ \E in \in DepositInputs, now \in Slots : DepositStep(in, now)
DepositsInitHistoricalRoots ==
    /\ steps < MaxDepositSteps
    /\ \E now \in Slots : InitHistoricalRootsStep(ADMIN, now)
DepositsSetPaused ==
    /\ steps < MaxDepositSteps
    /\ \E paused \in BOOLEAN, now \in Slots : SetPausedStep(ADMIN, paused, now)

NextDeposits ==
    \/ DepositsDeposit
    \/ DepositsInitHistoricalRoots
    \/ DepositsSetPaused

SpecDeposits == Init /\ [][NextDeposits]_vars

\* the 32-byte big-endian encoding of a u64: 24 zero bytes, then the value
Encoding(amount) == [hi |-> 0, lo |-> amount]

\* C18: deposit(amount, proof) is rejected, before any token transfer and
\* without any change, when amount is below MIN_DEPOSIT_SPL_UNITS
\* (DepositBelowMinimum), when proof.deposit_amount is not the encoding of
\* amount (InvalidProof), or when proof.old_root is not the commitment root
\* (InvalidMerkleRoot), valid in the root history or not.  The codes are those
\* of a call that passes the account constraints, the first of the three
\* conditions that applies deciding.
C18_DepositPreconditions ==
    \A now \in SlotsAhead :
        \A in \in DepositInputs :
            LET out == deposit(Accounts, in, now)
                below == in.amount < MIN_DEPOSIT_SPL_UNITS
                misencoded == in.proof_data.deposit_amount # Encoding(in.amount)
                stale == in.proof_data.old_root # pool.commitment_root
            IN
            (below \/ misencoded \/ stale) =>
                /\ out.err # "Ok"
                /\ out.st = Accounts
                /\ deposit_accounts(Accounts, in) = "Ok" =>
                      out.err = IF below THEN "DepositBelowMinimum"
                                ELSE IF misencoded THEN "InvalidProof"
                                ELSE "InvalidMerkleRoot"

\* after a deposit has advanced the root: a bundle citing the previous root,
\* still valid in the history, is refused with InvalidMerkleRoot; a bundle
\* below the minimum and a bundle with a mismatched amount field are refused
\* with their codes
C18_Witness ==
    /\ result.op = "deposit"
    /\ \E in \in DepositInputs :
          /\ in.proof_data.old_root # pool.commitment_root
          /\ is_valid_root_with_expiration(pool, in.proof_data.old_root, slot)
          /\ deposit(Accounts, in, slot).err = "InvalidMerkleRoot"
          /\ deposit(Accounts, [in EXCEPT !.proof_data.old_root = pool.commitment_root], slot).err = "Ok"
    /\ \E in \in DepositInputs : deposit(Accounts, in, slot).err = "DepositBelowMinimum"
    /\ \E in \in DepositInputs :
          /\ in.proof_data.deposit_amount.hi = 0
          /\ deposit(Accounts, in, slot).err = "InvalidProof"

\* the fields of PoolState that neither deposit nor withdraw may touch
Untouched(p) ==
    <<p.authority, p.per_authority, p.token_mint, p.vk_hash, p.last_nullifiers_root,
      p.paused, p.emergency_mode>>

\* root is recorded in the inline history of p with stamp s
Retired(p, root, s) ==
    \E i \in InlineIdx : p.historical_roots[i] = root /\ p.historical_roots_slots[i] = s

\* C19: a successful deposit(amount) makes proof.new_root the commitment root,
\* stamped with the current slot; records the previous root, with its stamp, in
\* the inline history (and, stamped with the current slot, in the extended
\* buffer when that account is passed); moves exactly amount into the vault and
\* adds exactly amount to total_shielded; adds 1 to total_deposits; and leaves
\* total_withdrawals, total_nullifiers, last_nullifiers_root, paused,
\* emergency_mode and the nullifier entries as they were.
C19_DepositEffects ==
    \A now \in SlotsAhead :
        \A in \in DepositInputs :
            LET out == deposit(Accounts, in, now)
                q == out.st.pool
            IN
            out.err = "Ok" =>
                /\ q.commitment_root = in.proof_data.new_root
                /\ q.commitment_root_slot = now
                /\ Retired(q, pool.commitment_root, pool.commitment_root_slot)
                /\ in.ext_given =>
                      \E i \in ExtIdx :
                          /\ out.st.ext.roots[i] = pool.commitment_root
                          /\ out.st.ext.slots[i] = now
                /\ ~in.ext_given => out.st.ext = ext
                /\ out.st.vault = vault + in.amount
                /\ q.total_shielded = pool.total_shielded + in.amount
                /\ q.total_deposits = pool.total_deposits + 1
                /\ q.total_withdrawals = pool.total_withdrawals
                /\ q.total_nullifiers = pool.total_nullifiers
                /\ Untouched(q) = Untouched(pool)
                /\ out.st.nullifier_entries = nullifier_entries

\* the state after the first deposit, made after initialization's slot with
\* the extended buffer passed: the zero root of initialize is retired with
\* the stamp of initialize inline and with the deposit's slot in the buffer
C19_Witness ==
    /\ result.op = "deposit"
    /\ pool.total_deposits = 1
    /\ pool.total_shielded = MIN_DEPOSIT_SPL_UNITS
    /\ vault = MIN_DEPOSIT_SPL_UNITS
    /\ pool.commitment_root # ZERO_ROOT
    /\ pool.commitment_root_slot = slot
    /\ slot > InitSlot
    /\ Retired(pool, ZERO_ROOT, InitSlot)
    /\ ext.exists /\ ext.slots[0] = slot

(***************************************************************************)
(* SpecEmergency: the pause / emergency state machine around the money     *)
(* flow.  Well-formed deposits, withdraws and settlements, the two flag    *)
(* setters and emergency_withdraw, signed by the admin or by a user, in    *)
(* the slot of initialization or the next.                                 *)
(***************************************************************************)
EmergencySlots == {InitSlot, InitSlot + 1}

\* every instruction but withdraw runs in the slot of the one before it
EmergencyDeposit ==
    /\ steps < MaxEmergencySteps
    /\ \E o \in Roots : DepositStep(DepositIn(MIN_DEPOSIT_SPL_UNITS, o, MaxRoot, FALSE), slot)
EmergencyUserWithdraw ==
    /\ steps < MaxEmergencySteps
    /\ \E a \in {0, MIN_DEPOSIT_SPL_UNITS}, x \in Nullifiers, o \in Roots, now \in EmergencySlots :
          WithdrawStep(WithdrawIn(a, x, o, MaxRoot, FALSE), now)
EmergencySettleBatch ==
    /\ steps < MaxEmergencySteps
    /\ \E o \in Roots : SettleBatchStep(SettleIn(o, MaxRoot, 1, 0), slot)
EmergencySetPaused ==
    /\ steps < MaxEmergencySteps
    /\ \E authority \in Signers, paused \in BOOLEAN : SetPausedStep(authority, paused, slot)
EmergencySetEmergencyMode ==
    /\ steps < MaxEmergencySteps
    /\ \E authority \in Signers, emergency_mode \in BOOLEAN :
          SetEmergencyModeStep(authority, emergency_mode, slot)
EmergencyEmergencyWithdraw ==
    /\ steps < MaxEmergencySteps
    /\ \E in \in EmergencyInputs : EmergencyWithdrawStep(in, slot)

NextEmergency ==
    \/ EmergencyDeposit
    \/ EmergencyUserWithdraw
    \/ EmergencySettleBatch
    \/ EmergencySetPaused
    \/ EmergencySetEmergencyMode
    \/ EmergencyEmergencyWithdraw

SpecEmergency == Init /\ [][NextEmergency]_vars

(***************************************************************************)
(* Properties of the pause / emergency state machine and of the money     *)
(* flow (SpecEmergency; C12 under Spec).                                   *)
(***************************************************************************)
\* the slots an instruction may run at under SpecEmergency
EmergencySlotsAhead == {now \in EmergencySlots : now >= slot}

\* C11: once an emergency_withdraw has succeeded, no deposit, withdraw or
\* settle_batch succeeds on the pool ever afterwards.
C11_NoReturnToActive ==
    emergency_used => result.op \notin {"deposit", "withdraw", "settle_batch"}

\* C12: paused and emergency_mode change only in a successful set_paused,
\* respectively set_emergency_mode; either instruction fails with Unauthorized
\* and changes nothing unless its signer is pool.authority; and
\* set_emergency_mode(true) fails, both flags unchanged, unless paused is true.
C12_FlagTransitions ==
    /\ [](\A flag \in BOOLEAN :
            /\ \A authority \in Signers \ {pool.authority} :
                  /\ LET out == set_paused(Accounts, authority, flag) IN
                     out.err = "Unauthorized" /\ committed(Accounts, out) = Accounts
                  /\ LET out == set_emergency_mode(Accounts, authority, flag) IN
                     out.err = "Unauthorized" /\ committed(Accounts, out) = Accounts
            /\ ~pool.paused =>
                  \A authority \in Signers :
                      LET out == set_emergency_mode(Accounts, authority, TRUE)
                          after == committed(Accounts, out)
                      IN /\ out.err # "Ok"
                         /\ after.pool.paused = pool.paused
                         /\ after.pool.emergency_mode = pool.emergency_mode)
    /\ [][/\ pool'.paused # pool.paused => result'.op = "set_paused"
          /\ pool'.emergency_mode # pool.emergency_mode => result'.op = "set_emergency_mode"]_vars

\* both flags have been changed by the admin, the pool is unpaused again, and
\* now a user's set_paused is refused and the admin's set_emergency_mode(true)
\* is refused for want of the pause
C12_Witness ==
    /\ result.op = "set_paused"
    /\ ~pool.paused
    /\ pool.emergency_mode
    /\ set_paused(Accounts, USER, TRUE).err = "Unauthorized"
    /\ set_emergency_mode(Accounts, ADMIN, TRUE).err = "PoolPaused"

\* the Emergency state, and the admin's signature on an emergency_withdraw
Emergency == pool.paused /\ pool.emergency_mode
AdminSigned(in) == in.authority = pool.authority

\* C13: emergency_withdraw succeeds only in the Emergency state with the
\* admin's signature; otherwise it moves no funds, stores nothing, and fails
\* with PoolPaused when the pool is not paused, with EmergencyModeNotActive
\* when it is paused without emergency_mode, and with Unauthorized in the
\* Emergency state without the admin's signature (a call that also names a
\* token account of another mint reports that first, as InvalidMint).
C13_EmergencyOnly ==
    \A in \in EmergencyInputs :
        LET out == emergency_withdraw(Accounts, in) IN
        /\ out.err = "Ok" => Emergency /\ AdminSigned(in)
        /\ ~(Emergency /\ AdminSigned(in)) =>
              /\ committed(Accounts, out) = Accounts
              /\ out.err =
                    IF ~pool.paused THEN "PoolPaused"
                    ELSE IF ~pool.emergency_mode THEN "EmergencyModeNotActive"
                    ELSE IF in.recipient_token_account.mint # pool.token_mint THEN "InvalidMint"
                    ELSE "Unauthorized"

\* an emergency withdrawal has emptied a funded vault; the pool is still in
\* the Emergency state and a user's emergency_withdraw is refused
C13_Witness ==
    /\ result.op = "emergency_withdraw"
    /\ pool.total_deposits > 0
    /\ vault = 0
    /\ Emergency
    /\ \E in \in EmergencyInputs :
          /\ ~AdminSigned(in)
          /\ emergency_withdraw(Accounts, in).err = "Unauthorized"
          /\ emergency_withdraw(Accounts, [in EXCEPT !.authority = pool.authority]).err = "Ok"

\* the accounts with the balances the solvency guard may meet: any vault
\* balance against any total_shielded
Balances ==
    {[Accounts EXCEPT !.vault = v, !.pool.total_shielded = t] :
        v \in 0..U64_MAX, t \in 0..U64_MAX}

Funded(st) == [st EXCEPT !.vault = U64_MAX, !.pool.total_shielded = U64_MAX]

SolventFor(st, amount) == st.pool.total_shielded >= amount /\ st.vault >= amount

\* withdraw bundles that cite the current root, one per amount and nullifier
SolvencyWithdrawInputs ==
    {WithdrawIn(a, x, pool.commitment_root, MaxRoot, FALSE) : a \in 0..U64_MAX, x \in Nullifiers}

\* did the guard refuse: one of its two codes, nothing stored
Refused(st, out) ==
    /\ out.err \in {"InsufficientPoolBalance", "InsufficientVaultBalance"}
    /\ committed(st, out) = st

\* C14: withdraw and emergency_withdraw succeed only if total_shielded and the
\* vault balance both cover the amount; a call that only the balances keep from
\* succeeding fails with InsufficientPoolBalance or InsufficientVaultBalance and
\* leaves the vault, total_shielded, the root and the nullifier entries as
\* they were.
C14_SolvencyGuard ==
    /\ \A now \in EmergencySlotsAhead :
          /\ \A in \in WithdrawInputs :
                withdraw(Accounts, in, now).err = "Ok" =>
                    SolventFor(Accounts, field_to_u64(in.proof_data.amount).val)
          /\ \A in \in EmergencyInputs :
                emergency_withdraw(Accounts, in).err = "Ok" => SolventFor(Accounts, in.amount)
    /\ \A st \in Balances :
          /\ \A in \in SolvencyWithdrawInputs :
                LET out == withdraw(st, in, slot) IN
                ~SolventFor(st, field_to_u64(in.proof_data.amount).val) =>
                    /\ out.err # "Ok"
                    /\ committed(st, out) = st
                    /\ withdraw(Funded(st), in, slot).err = "Ok" => Refused(st, out)
          /\ \A in \in EmergencyInputs :
                LET out == emergency_withdraw(st, in) IN
                ~SolventFor(st, in.amount) =>
                    /\ out.err # "Ok"
                    /\ committed(st, out) = st
                    /\ emergency_withdraw(Funded(st), in).err = "Ok" => Refused(st, out)

\* after a successful withdraw, a second bundle with a fresh nullifier and a
\* positive amount passes the proof check, has its entry written, and is then
\* refused by the guard for each of the two reasons
C14_Witness ==
    /\ result.op = "withdraw"
    /\ \E in \in SolvencyWithdrawInputs :
          /\ LET out == withdraw(Accounts, in, slot) IN
             /\ out.err = "InsufficientPoolBalance"
             /\ out.st.nullifier_entries[in.proof_data.nullifier].exists
          /\ \E st \in Balances :
                withdraw(st, in, slot).err = "InsufficientVaultBalance"

\* C15: settle_batch succeeds only if the signer is pool.per_authority, the pool
\* is not paused, proof.old_root is the commitment root and the proof verifies.
\* A call by any other signer changes nothing and, on an unpaused pool, fails
\* with Unauthorized; a call citing any other root changes nothing and, when it
\* is acceptable apart from the root and the proof, fails with
\* InvalidMerkleRoot.  Nothing changed includes last_nullifiers_root,
\* total_nullifiers and the root.
C15_SettleGuard ==
    \A now \in EmergencySlotsAhead :
        \A in \in SettleInputs :
            LET out == settle_batch(Accounts, in, now)
                cited == [in EXCEPT !.proof_data.old_root = pool.commitment_root]
            IN
            /\ out.err = "Ok" =>
                  /\ in.per_authority = pool.per_authority
                  /\ ~pool.paused
                  /\ in.proof_data.old_root = pool.commitment_root
                  /\ verify_proof(in.proof_data.proof) = "true"
            /\ in.per_authority # pool.per_authority =>
                  /\ out.err # "Ok"
                  /\ committed(Accounts, out) = Accounts
                  /\ ~pool.paused => out.err = "Unauthorized"
            /\ in.proof_data.old_root # pool.commitment_root =>
                  /\ out.err # "Ok"
                  /\ committed(Accounts, out) = Accounts
                  /\ settle_batch(Accounts, cited, now).err \in {"Ok", "VerifierError", "Overflow"} =>
                        out.err = "InvalidMerkleRoot"

\* after a settlement that stored a nullifiers root and advanced the root: a
\* bundle citing the previous root, still valid in the history, is refused
\* with InvalidMerkleRoot, and another signer's bundle with Unauthorized
C15_Witness ==
    /\ result.op = "settle_batch"
    /\ pool.last_nullifiers_root # ZERO_ROOT
    /\ \E in \in SettleInputs :
          /\ in.proof_data.old_root # pool.commitment_root
          /\ is_valid_root_with_expiration(pool, in.proof_data.old_root, slot)
          /\ settle_batch(Accounts, in, slot).err = "InvalidMerkleRoot"
    /\ \E in \in SettleInputs :
          /\ in.proof_data.old_root = pool.commitment_root
          /\ settle_batch(Accounts, in, slot).err = "Unauthorized"
          /\ settle_batch(Accounts, [in EXCEPT !.per_authority = pool.per_authority], slot).err = "Ok"

\* C20: a successful withdraw creates the entry of proof.nullifier, stamped
\* with the current slot; moves exactly the amount encoded in proof.amount out
\* of the vault and takes it off total_shielded; adds 1 to total_withdrawals
\* and to total_nullifiers; and makes proof.new_root the commitment root,
\* stamped with the current slot, the previous root being recorded with its
\* stamp in the inline history.  Nothing else changes.  Checked on the
\* current accounts for every bundle, and for every amount against every
\* vault balance and total_shielded.
C20_WithdrawEffects ==
    \A st \in {Accounts} \cup Balances :
        \A now \in IF st = Accounts THEN EmergencySlotsAhead ELSE {slot} :
            \A in \in IF st = Accounts
                      THEN WithdrawInputs \cup SolvencyWithdrawInputs
                      ELSE SolvencyWithdrawInputs :
                LET out == withdraw(st, in, now)
                    q == out.st.pool
                    x == in.proof_data.nullifier
                    amount == in.proof_data.amount.lo
                IN
                out.err = "Ok" =>
                    /\ in.proof_data.amount.hi = 0
                    /\ out.st.nullifier_entries =
                          [st.nullifier_entries EXCEPT
                              ![x] = [exists |-> TRUE, nullifier |-> x, slot |-> now]]
                    /\ out.st.vault = st.vault - amount
                    /\ q.total_shielded = st.pool.total_shielded - amount
                    /\ q.total_withdrawals = st.pool.total_withdrawals + 1
                    /\ q.total_nullifiers = st.pool.total_nullifiers + 1
                    /\ q.commitment_root = in.proof_data.new_root
                    /\ q.commitment_root_slot = now
                    /\ Retired(q, st.pool.commitment_root, st.pool.commitment_root_slot)
                    /\ q.total_deposits = st.pool.total_deposits
                    /\ Untouched(q) = Untouched(st.pool)
                    /\ out.st.ext = st.ext

\* the state after the first withdraw, made after initialization's slot: its
\* entry is in place with the slot of the withdraw; and from here a bundle for
\* a positive amount succeeds against balances that cover it
C20_Witness ==
    /\ result.op = "withdraw"
    /\ slot > InitSlot
    /\ nullifier_entries[result.nullifier] =
          [exists |-> TRUE, nullifier |-> result.nullifier, slot |-> slot]
    /\ pool.total_withdrawals = 1
    /\ pool.total_nullifiers = 1
    /\ pool.commitment_root # ZERO_ROOT
    /\ pool.commitment_root_slot = slot
    /\ Retired(pool, ZERO_ROOT, InitSlot)
    /\ \E st \in Balances, in \in SolvencyWithdrawInputs :
          in.proof_data.amount.lo > 0 /\ withdraw(st, in, slot).err = "Ok"

(***************************************************************************)
(* SpecNullifiers: the life of the nullifier entries.  Settlements that     *)
(* store the roots of small nullifier trees, record_nullifier with paths   *)
(* into them, withdraws, and cleanup_nullifier, at the slots around one    *)
(* cleanup age after initialization.                                       *)
(***************************************************************************)
\* the nullifier trees of the model: one leaf, or a leaf and a zero sibling
NullifiersRoots == Nullifiers \cup {keccak_pair(n, ZERO_ROOT) : n \in Nullifiers}

RecordPaths ==
    [nullifier : Nullifiers, nullifiers_root : NullifiersRoots,
     merkle_proof : {<<>>, <<ZERO_ROOT>>}, path_indices : {<<>>, <<0>>, <<1>>}]

NullifierSlots ==
    {InitSlot, InitSlot + MIN_NULLIFIER_AGE_FOR_CLEANUP - 1,
     InitSlot + MIN_NULLIFIER_AGE_FOR_CLEANUP}

NullifiersSettleBatch ==
    /\ steps < MaxNullifierSteps
    /\ \E r \in NullifiersRoots, c \in {0, U32_MAX}, now \in NullifierSlots :
          LET in == SettleIn(pool.commitment_root, MaxRoot, r, c) IN
          Run(settle_batch(Accounts, in, now),
              [Result("settle_batch") EXCEPT
                  !.verified = cpi_verify(in.proof_data.proof),
                  !.replaced = pool.last_nullifiers_root],
              now)
NullifiersRecordNullifier ==
    /\ steps < MaxNullifierSteps
    /\ \E in \in RecordPaths, now \in NullifierSlots : RecordNullifierStep(in, now)
NullifiersWithdraw ==
    /\ steps < MaxNullifierSteps
    /\ \E x \in Nullifiers, now \in NullifierSlots :
          WithdrawStep(WithdrawIn(0, x, pool.commitment_root, MaxRoot, FALSE), now)
NullifiersCleanupNullifier ==
    /\ steps < MaxNullifierSteps
    /\ \E in \in CleanupInputs, now \in NullifierSlots : CleanupNullifierStep(in, now)

NextNullifiers ==
    \/ NullifiersSettleBatch
    \/ NullifiersRecordNullifier
    \/ NullifiersWithdraw
    \/ NullifiersCleanupNullifier

SpecNullifiers == Init /\ [][NextNullifiers]_vars

(***************************************************************************)
(* Properties of the nullifier entries (SpecNullifiers).                   *)
(***************************************************************************)
\* the slots an instruction may run at under SpecNullifiers
NullifierSlotsAhead == {now \in NullifierSlots : now >= slot}

\* the three conditions of record_nullifier on its arguments
MembershipProved(in) ==
    /\ in.nullifiers_root = pool.last_nullifiers_root
    /\ Len(in.merkle_proof) = Len(in.path_indices)
    /\ compute_merkle_root_with_indices(in.nullifier, in.merkle_proof, in.path_indices)
          = in.nullifiers_root

\* C16: record_nullifier creates an entry only if the supplied nullifiers_root
\* is pool.last_nullifiers_root, the proof path and the path bits have equal
\* length and the root recomputed from the nullifier leaf is nullifiers_root;
\* otherwise it creates nothing and (at a free address) fails with
\* InvalidNullifierProof.  A root that a later settle_batch has replaced is
\* such a root.
C16_RecordGuard ==
    \A now \in NullifierSlotsAhead :
        \A in \in RecordPaths :
            LET out == record_nullifier(Accounts, in, now) IN
            /\ out.err = "Ok" =>
                  /\ MembershipProved(in)
                  /\ out.st.nullifier_entries[in.nullifier] = Entry(in.nullifier, now)
            /\ ~MembershipProved(in) =>
                  /\ out.err # "Ok"
                  /\ committed(Accounts, out) = Accounts
                  /\ ~nullifier_entries[in.nullifier].exists => out.err = "InvalidNullifierProof"

\* a settle_batch has replaced a nullifiers root stored by an earlier
\* settle_batch; a record_nullifier whose path proves membership under the
\* replaced root is refused, one with a path of one sibling under the stored
\* root is accepted
C16_Witness ==
    /\ result.op = "settle_batch"
    /\ result.replaced # ZERO_ROOT
    /\ result.replaced # pool.last_nullifiers_root
    /\ \E in \in RecordPaths :
          /\ in.nullifiers_root = result.replaced
          /\ compute_merkle_root_with_indices(in.nullifier, in.merkle_proof, in.path_indices)
                = in.nullifiers_root
          /\ Len(in.merkle_proof) = Len(in.path_indices)
          /\ record_nullifier(Accounts, in, slot).err = "InvalidNullifierProof"
    /\ \E in \in RecordPaths :
          /\ Len(in.merkle_proof) > 0
          /\ record_nullifier(Accounts, in, slot).err = "Ok"

\* the slots around the cleanup threshold of an entry created at slot s, as far
\* as they are not in the past
AgesOf(s) ==
    {now \in {s + d : d \in {0, MIN_NULLIFIER_AGE_FOR_CLEANUP - 1,
                             MIN_NULLIFIER_AGE_FOR_CLEANUP,
                             MIN_NULLIFIER_AGE_FOR_CLEANUP + 1}} : now >= slot}

\* C17: for an existing entry, cleanup_nullifier fails and leaves the entry in
\* place while now - entry.slot < MIN_NULLIFIER_AGE_FOR_CLEANUP, and succeeds and
\* deletes the entry from exactly that age on; the call succeeds only with
\* pool.authority as the destination of the reclaimed lamports, and with any
\* other destination it fails with Unauthorized and changes nothing.
C17_ReclaimGating ==
    /\ \A x \in Nullifiers :
          nullifier_entries[x].exists =>
              \A now \in AgesOf(nullifier_entries[x].slot) \cup NullifierSlotsAhead :
                  \A in \in CleanupInputs :
                      in.nullifier = x =>
                          LET out == cleanup_nullifier(Accounts, in, now)
                              after == committed(Accounts, out)
                          IN
                          IF in.rent_recipient # pool.authority
                          THEN out.err = "Unauthorized" /\ after = Accounts
                          ELSE IF now - nullifier_entries[x].slot < MIN_NULLIFIER_AGE_FOR_CLEANUP
                          THEN out.err # "Ok" /\ after = Accounts
                          ELSE /\ out.err = "Ok"
                               /\ after = [Accounts EXCEPT !.nullifier_entries[x] = NoEntry]
    /\ result.op = "cleanup_nullifier" => result.recipient = pool.authority

\* an entry has been reclaimed at exactly the threshold age (no entry is older
\* at this slot), while a younger entry is in place and cannot be reclaimed
C17_Witness ==
    /\ result.op = "cleanup_nullifier"
    /\ slot = InitSlot + MIN_NULLIFIER_AGE_FOR_CLEANUP
    /\ ~nullifier_entries[result.nullifier].exists
    /\ \E y \in Nullifiers :
          /\ nullifier_entries[y].exists
          /\ slot - nullifier_entries[y].slot < MIN_NULLIFIER_AGE_FOR_CLEANUP
          /\ cleanup_nullifier(Accounts, [nullifier |-> y, rent_recipient |-> pool.authority],
                               slot).err = "Unauthorized"

(***************************************************************************)
(* SpecRing: the two ring buffers on their own.  update_root and push are  *)
(* applied with roots that are all distinct (the k-th root committed, and  *)
(* the k-th root pushed into the extended buffer, is the digest k), until  *)
(* each buffer has taken two pushes more than its capacity.                *)
(***************************************************************************)
RingSlots == {InitSlot, InitSlot + 1, InitSlot + MAX_ROOT_AGE_SLOTS}

MaxInlinePushes == HISTORICAL_ROOTS_SIZE + 2
MaxExtendedPushes == HISTORICAL_ROOTS_CAPACITY + 2

\* the root stored by the latest push into the extended buffer, the all-zero
\* root before the first push
last_pushed(h) ==
    h.roots[(h.roots_index + HISTORICAL_ROOTS_CAPACITY - 1) % HISTORICAL_ROOTS_CAPACITY]

\* the accounts st are stored by a step named op, taken at slot now
RingStep(st, op, now) ==
    /\ now >= slot
    /\ Store(st)
    /\ result' = Result(op)
    /\ steps' = steps + 1
    /\ slot' = now
    /\ UNCHANGED <<first_spend, emergency_used, codec, ledger, merkle>>

\* PoolState::update_root with the next unused digest; the inline buffer has
\* then taken as many pushes as the number of the current root
RingUpdateRoot ==
    /\ pool.commitment_root < MaxInlinePushes
    /\ \E now \in RingSlots :
          RingStep([Accounts EXCEPT !.pool = update_root(pool, pool.commitment_root + 1, now)],
                   "update_root", now)

\* HistoricalRoots::push of the next unused digest
RingPush ==
    /\ ext.exists
    /\ last_pushed(ext) < MaxExtendedPushes
    /\ \E now \in RingSlots :
          RingStep([Accounts EXCEPT !.ext = push(ext, last_pushed(ext) + 1, now)], "push", now)

RingInitHistoricalRoots ==
    \E now \in RingSlots : InitHistoricalRootsStep(ADMIN, now)

NextRing ==
    \/ RingUpdateRoot
    \/ RingPush
    \/ RingInitHistoricalRoots

SpecRing == Init /\ [][NextRing]_vars

\* the slots at which a reader may query a buffer
RingQuerySlots ==
    {s + d : s \in RingSlots, d \in {0, MAX_ROOT_AGE_SLOTS, MAX_ROOT_AGE_SLOTS + 1}}

\* C21: after capacity + 1 pushes of distinct roots into a ring buffer the
\* oldest of them (and every root pushed before it) is reported valid at no
\* slot; and the push that wraps the write index from capacity - 1 to 0 leaves
\* the root it stored reported valid, from the slot of the push to
\* MAX_ROOT_AGE_SLOTS past the root's stamp.  Inline buffer (update_root) and
\* extended buffer (push).
C21_WraparoundSafety ==
    /\ \A now \in RingQuerySlots :
          /\ \A root \in 0..(pool.commitment_root - (HISTORICAL_ROOTS_SIZE + 1)) :
                ~is_valid_root_with_expiration(pool, root, now)
          /\ \A root \in 1..(last_pushed(ext) - HISTORICAL_ROOTS_CAPACITY) :
                ~contains_with_expiration(ext, root, now)
    /\ (result.op = "update_root" /\ pool.roots_index = 0) =>
          LET stored == pool.historical_roots[HISTORICAL_ROOTS_SIZE - 1]
              S == pool.historical_roots_slots[HISTORICAL_ROOTS_SIZE - 1]
          IN
          /\ stored = pool.commitment_root - 1
          /\ \A now \in RingQuerySlots :
                (slot <= now /\ now <= S + MAX_ROOT_AGE_SLOTS) =>
                    is_valid_root_with_expiration(pool, stored, now)
    /\ (result.op = "push" /\ ext.roots_index = 0) =>
          LET stored == ext.roots[HISTORICAL_ROOTS_CAPACITY - 1] IN
          /\ stored = last_pushed(ext)
          /\ stored # ZERO_ROOT
          /\ \A now \in RingQuerySlots :
                (slot <= now /\ now <= slot + MAX_ROOT_AGE_SLOTS) =>
                    contains_with_expiration(ext, stored, now)

\* the inline buffer has taken two pushes more than its capacity, the last
\* capacity + 1 of them non-zero roots, and the extended buffer has just
\* wrapped; every stamp is that of the initialization slot, so age alone would
\* keep every root valid
C21_Witness ==
    /\ pool.commitment_root = HISTORICAL_ROOTS_SIZE + 2
    /\ result.op = "push"
    /\ ext.roots_index = 0
    /\ last_pushed(ext) = HISTORICAL_ROOTS_CAPACITY
    /\ slot = InitSlot

\* the entry of a buffer at its write index
Cleared(roots, slots, index) == roots[index] = ZERO_ROOT /\ slots[index] = 0

\* C22: in every reachable state the write index of each ring buffer is within
\* [0, capacity) and the entry at the write index holds the all-zero root with
\* stamp 0; and every step that writes a buffer advances its write index by
\* exactly one modulo the capacity.
C22_PreClear ==
    /\ [](/\ pool.roots_index \in InlineIdx
          /\ Cleared(pool.historical_roots, pool.historical_roots_slots, pool.roots_index)
          /\ ext.roots_index \in ExtIdx
          /\ Cleared(ext.roots, ext.slots, ext.roots_index))
    /\ [][<<pool.historical_roots, pool.historical_roots_slots, pool.roots_index>>' #
             <<pool.historical_roots, pool.historical_roots_slots, pool.roots_index>> =>
                pool.roots_index' = (pool.roots_index + 1) % HISTORICAL_ROOTS_SIZE]_vars
    /\ [][<<ext.roots, ext.slots, ext.roots_index>>' # <<ext.roots, ext.slots, ext.roots_index>> =>
                ext.roots_index' = (ext.roots_index + 1) % HISTORICAL_ROOTS_CAPACITY]_vars

\* both buffers have gone once around: each holds capacity - 1 stamped roots
\* and the cleared entry at its write index
C22_Witness ==
    /\ pool.commitment_root > HISTORICAL_ROOTS_SIZE
    /\ last_pushed(ext) > HISTORICAL_ROOTS_CAPACITY
    /\ \A i \in InlineIdx \ {pool.roots_index} : pool.historical_roots_slots[i] # 0
    /\ \A i \in ExtIdx \ {ext.roots_index} : ext.slots[i] # 0

(***************************************************************************)
(* SpecCodec: the field conversions on their own, and withdraw fed with    *)
(* the field last decoded.  u64_to_field is called with every u64,         *)
(* field_to_u64 with every field.                                          *)
(***************************************************************************)
CodecU64ToField ==
    /\ \E value \in U64Values :
          codec' = [call |-> "u64_to_field", value |-> value,
                    field |-> u64_to_field_bytes(value), ok |-> TRUE]
    /\ UNCHANGED <<pool, ext, nullifier_entries, vault, slot, result, steps, first_spend,
                   emergency_used, ledger, merkle>>

CodecFieldToU64 ==
    /\ \E field \in Fields :
          LET decoded == field_to_u64_bytes(field) IN
          codec' = [call |-> "field_to_u64", value |-> decoded.val,
                    field |-> field, ok |-> decoded.ok]
    /\ UNCHANGED <<pool, ext, nullifier_entries, vault, slot, result, steps, first_spend,
                   emergency_used, ledger, merkle>>

\* the withdraw bundles that carry the bytes `field` as proof_data.amount
CodecWithdrawInputs(field) ==
    {[WithdrawIn(0, x, o, MaxRoot, e) EXCEPT !.proof_data.amount = FieldOf(field)] :
        x \in Nullifiers, o \in Roots, e \in BOOLEAN}

CodecWithdraw ==
    /\ steps < MaxCodecSteps
    /\ codec.call = "field_to_u64"
    /\ FieldOf(codec.field).lo <= U64_MAX
    /\ \E in \in CodecWithdrawInputs(codec.field), now \in Slots : WithdrawStep(in, now)

NextCodec ==
    \/ CodecU64ToField
    \/ CodecFieldToU64
    \/ CodecWithdraw

SpecCodec == Init /\ [][NextCodec]_vars

\* C23: for every u64 v, u64_to_field(v) is the field whose bytes 0..24 are zero
\* and whose bytes 24..32 spell v most significant byte first, and
\* field_to_u64 of it returns v; the field of the instructions' bundles it
\* stands for is the one u64_to_field of the instructions builds.
C23_RoundTrip ==
    codec.call = "u64_to_field" =>
        /\ codec.field \in Fields
        /\ \A i \in 1..LEADING : codec.field[i] = 0
        /\ codec.value =
              LET digit(i) == codec.field[LEADING + i] * (BYTE_VALUES ^ (U64_BYTES - i))
                  sum[i \in 0..U64_BYTES] == IF i = 0 THEN 0 ELSE sum[i - 1] + digit(i)
              IN sum[U64_BYTES]
        /\ field_to_u64_bytes(codec.field) = [ok |-> TRUE, val |-> codec.value]
        /\ FieldOf(codec.field) = u64_to_field(codec.value)
        /\ field_to_u64(FieldOf(codec.field)) = [ok |-> TRUE, val |-> codec.value]

\* the largest u64 encoded: every value byte is non-zero
C23_Witness ==
    /\ codec.call = "u64_to_field"
    /\ codec.value = BYTE_VALUES ^ U64_BYTES - 1
    /\ \A i \in (LEADING + 1)..FIELD_BYTES : codec.field[i] # 0

\* the codes a withdraw can fail with before it reaches the verifier
BeforeVerifier ==
    {"PoolPaused", "InvalidMint", "AccountAlreadyInUse", "InvalidVerificationKey",
     "AccountNotInitialized", "InvalidRecipient", "InvalidProof"}

\* C24: field_to_u64 fails for every field with a non-zero byte among bytes
\* 0..24, hence for every field whose number is 2^64 or more and for every
\* field whose number is the modulus or more; and a withdraw carrying such a
\* field as proof.amount fails before the verifier is called (with
\* InvalidProof once the accounts and the recipient are accepted) and changes
\* nothing.
C24_MalformedAmount ==
    codec.call = "field_to_u64" =>
        LET number == from_bytes_be(codec.field)
            malformed == \E i \in 1..LEADING : codec.field[i] # 0
        IN
        /\ malformed => ~codec.ok
        /\ number >= BYTE_VALUES ^ U64_BYTES => malformed
        /\ number >= FIELD_MODULUS => malformed
        /\ codec.ok = field_to_u64(FieldOf(codec.field)).ok
        /\ codec.ok => codec.value = field_to_u64(FieldOf(codec.field)).val
        /\ malformed =>
              \A now \in SlotsAhead :
                  \A in \in CodecWithdrawInputs(codec.field) :
                      LET out == withdraw(Accounts, in, now) IN
                      /\ out.err \in BeforeVerifier
                      /\ committed(Accounts, out) = Accounts
                      /\ withdraw_accounts(Accounts, in).err = "Ok" => out.err = "InvalidProof"

\* a field below the modulus with a non-zero byte among its leading bytes was
\* refused by field_to_u64, on a pool that has accepted a withdraw: the bundle
\* that carries it fails with InvalidProof, the same bundle with the encoding
\* of 0 would be accepted
C24_Witness ==
    /\ codec.call = "field_to_u64"
    /\ ~codec.ok
    /\ \E i \in 1..LEADING : codec.field[i] # 0
    /\ from_bytes_be(codec.field) < FIELD_MODULUS
    /\ result.op = "withdraw"
    /\ \E in \in CodecWithdrawInputs(codec.field) :
          /\ withdraw(Accounts, in, slot).err = "InvalidProof"
          /\ withdraw(Accounts, [in EXCEPT !.proof_data.amount = u64_to_field(0)], slot).err = "Ok"

(***************************************************************************)
(* SpecChain: the chain of committed roots and its two histories.          *)
(* Well-formed deposits, withdraws and settlements citing any root, with   *)
(* or without the extended buffer, in the slot of initialization or the    *)
(* next; the record of a transition keeps the old_root its bundle cited.   *)
(***************************************************************************)
ChainSlots == {InitSlot, InitSlot + 1}

ChainDeposit ==
    /\ steps < MaxChainSteps
    /\ \E o \in Roots, n \in Roots, e \in BOOLEAN, now \in ChainSlots :
          LET in == DepositIn(MIN_DEPOSIT_SPL_UNITS, o, n, e) IN
          Run(deposit(Accounts, in, now),
              [Result("deposit") EXCEPT !.verified = TRUE, !.old_root = in.proof_data.old_root],
              now)
ChainWithdraw ==
    /\ steps < MaxChainSteps
    /\ \E o \in Roots, n \in Roots, e \in BOOLEAN, now \in ChainSlots :
          LET in == WithdrawIn(0, MaxNullifier, o, n, e) IN
          Run(withdraw(Accounts, in, now),
              [Result("withdraw") EXCEPT
                  !.nullifier = in.proof_data.nullifier,
                  !.verified = TRUE,
                  !.recipient = in.proof_data.recipient,
                  !.dest_owner = in.recipient_token_account.owner,
                  !.old_root = in.proof_data.old_root],
              now)
ChainSettleBatch ==
    /\ steps < MaxChainSteps
    /\ \E o \in Roots, n \in Roots, now \in ChainSlots :
          LET in == SettleIn(o, n, ZERO_ROOT, 0) IN
          Run(settle_batch(Accounts, in, now),
              [Result("settle_batch") EXCEPT !.verified = TRUE, !.old_root = in.proof_data.old_root],
              now)
ChainInitHistoricalRoots ==
    /\ steps < MaxChainSteps
    /\ \E now \in ChainSlots : InitHistoricalRootsStep(ADMIN, now)

NextChain ==
    \/ ChainDeposit
    \/ ChainWithdraw
    \/ ChainSettleBatch
    \/ ChainInitHistoricalRoots

SpecChain == Init /\ [][NextChain]_vars

\* the instructions that commit a new root
Transitions == {"deposit", "withdraw", "settle_batch"}

\* this step is a successful transition
Committing == steps' # steps /\ result'.op \in Transitions

\* C25: for every successful deposit, withdraw and settle_batch the old_root
\* of the bundle is the commitment root immediately before the commit.
C25_OneChain ==
    [][Committing => result'.old_root = pool.commitment_root]_vars

\* C26: each successful deposit, withdraw and settle_batch records the root
\* that was current before it in the inline buffer and, when the pool has an
\* extended HistoricalRoots buffer, in the extended buffer as well.
C26_SupersededRecorded ==
    [][Committing =>
          /\ pool'.historical_roots[pool.roots_index] = pool.commitment_root
          /\ pool'.roots_index = (pool.roots_index + 1) % HISTORICAL_ROOTS_SIZE
          /\ ext.exists =>
                /\ ext'.roots[ext.roots_index] = pool.commitment_root
                /\ ext'.roots_index = (ext.roots_index + 1) % HISTORICAL_ROOTS_CAPACITY]_vars

\* the slots at which a withdraw may run or a reader may query under SpecChain
ChainQuerySlots ==
    {now \in {s + d : s \in ChainSlots, d \in {0, MAX_ROOT_AGE_SLOTS, MAX_ROOT_AGE_SLOTS + 1}} :
        now >= slot}

\* C27: withdraw accepts old_root iff it is valid in the inline tier or in the
\* extended tier supplied with the call; and a transition that records the
\* superseded root in both tiers records it with the same stamp in both, so
\* that both tiers give the same verdict on it at every slot.
C27_OneValidityAlgorithm ==
    /\ [](\A now \in ChainQuerySlots :
            \A o \in Roots, n \in Roots, e \in BOOLEAN :
                LET in == WithdrawIn(0, MaxNullifier, o, n, e)
                    out == withdraw(Accounts, in, now)
                    valid == \/ is_valid_root_with_expiration(pool, o, now)
                             \/ e /\ contains_with_expiration(ext, o, now)
                IN
                /\ out.err = "Ok" => valid
                /\ out.err = "MerkleRootExpired" => ~valid
                /\ ~valid => out.err \in {"MerkleRootExpired", "PoolPaused", "AccountAlreadyInUse",
                                          "AccountNotInitialized"})
    /\ [][(Committing /\ ext'.roots_index # ext.roots_index) =>
            LET root == pool.commitment_root IN
            /\ ext'.roots[ext.roots_index] = pool'.historical_roots[pool.roots_index]
            /\ ext'.slots[ext.roots_index] = pool'.historical_roots_slots[pool.roots_index]
            /\ (root # ZERO_ROOT /\ root # pool'.commitment_root) =>
                  \A now \in ChainQuerySlots :
                      is_valid_root_with_expiration(pool', root, now) =
                          contains_with_expiration(ext', root, now)]_vars

(***************************************************************************)
(* Properties of the verification-key binding (Spec).                      *)
(***************************************************************************)
\* the bundle's key account does not hash to the digest the pool is bound to
KeyMismatch(in) == keccak_vk(in.verification_key) # pool.vk_hash

\* the codes of the checks made no later than the key-digest check
KeyCheckOrEarlier ==
    BeforeVerifier \cup
        {"DepositBelowMinimum", "InvalidMerkleRoot", "MerkleRootExpired", "Unauthorized",
         "VerificationKeyHashMismatch"}

\* the call failed no later than the key-digest check and nothing is stored
RefusedByKeyCheck(out) ==
    /\ out.err \in KeyCheckOrEarlier
    /\ committed(Accounts, out) = Accounts

\* C28: deposit, withdraw and settle_batch each fail, before the verifier is
\* called and without any change, when the hash of the key account passed
\* differs from pool.vk_hash (with VerificationKeyHashMismatch, unless an
\* earlier check fails first).
C28_VkBinding ==
    \A now \in SlotsAhead :
        /\ \A in \in DepositInputs :
              KeyMismatch(in) => RefusedByKeyCheck(deposit(Accounts, in, now))
        /\ \A in \in WithdrawInputs :
              KeyMismatch(in) => RefusedByKeyCheck(withdraw(Accounts, in, now))
        /\ \A in \in SettleInputs :
              KeyMismatch(in) => RefusedByKeyCheck(settle_batch(Accounts, in, now))

\* the key accounts of the verifier program: per pool and circuit, with one of
\* two key bodies
VerificationKeys ==
    [pool : {THIS_POOL, OTHER_POOL}, circuit_id : {DEPOSIT, WITHDRAW, BATCH_SETTLEMENT},
     body : {"vk", "vk2"}]

\* C29: on one pool a key account with circuit_id DEPOSIT and a key account
\* with circuit_id WITHDRAW both hash to pool.vk_hash, so that the pool can
\* accept deposits and withdrawals.
C29_Coexistence ==
    \E d \in VerificationKeys, w \in VerificationKeys :
        /\ d.circuit_id = DEPOSIT
        /\ w.circuit_id = WITHDRAW
        /\ keccak_vk(d) = pool.vk_hash
        /\ keccak_vk(w) = pool.vk_hash

\* what holds instead: the digest stored at initialize is never rewritten, a
\* pool bound to the deposit key accepts no withdraw and a pool bound to the
\* withdraw key accepts no deposit
VkHashFixed == [][pool'.vk_hash = pool.vk_hash]_vars

DepositsOrWithdrawals ==
    \A now \in SlotsAhead :
        /\ pool.vk_hash = keccak_vk(VkOf(DEPOSIT)) =>
              \A in \in WithdrawInputs : withdraw(Accounts, in, now).err # "Ok"
        /\ pool.vk_hash = keccak_vk(VkOf(WITHDRAW)) =>
              \A in \in DepositInputs : deposit(Accounts, in, now).err # "Ok"
        /\ pool.vk_hash \in {keccak_vk(VkOf(DEPOSIT)), keccak_vk(VkOf(WITHDRAW))}

(***************************************************************************)
(* SpecSolvency: the money flow.  Deposits, withdraws and emergency        *)
(* withdrawals of every u64 amount, the two switches, and transfers into   *)
(* the vault made by anyone directly with the token program; `ledger`      *)
(* keeps the sums of the amounts of the successful instructions.           *)
(***************************************************************************)
U64 == 0..U64_MAX

SolvencyDeposit ==
    /\ steps < MaxSolvencySteps
    /\ \E amount \in U64, o \in Roots :
          LET in == DepositIn(amount, o, MaxRoot, FALSE) IN
          Run(deposit(Accounts, in, slot),
              [Result("deposit") EXCEPT
                  !.verified = cpi_verify(in.proof_data.proof),
                  !.amount = in.amount],
              slot)

SolvencyWithdraw ==
    /\ steps < MaxSolvencySteps
    /\ \E amount \in U64, x \in Nullifiers, o \in Roots :
          LET in == WithdrawIn(amount, x, o, MaxRoot, FALSE) IN
          Run(withdraw(Accounts, in, slot),
              [Result("withdraw") EXCEPT
                  !.nullifier = in.proof_data.nullifier,
                  !.verified = cpi_verify(in.proof_data.proof),
                  !.amount = field_to_u64(in.proof_data.amount).val],
              slot)

SolvencySetPaused ==
    /\ steps < MaxSolvencySteps
    /\ \E authority \in Signers, paused \in BOOLEAN : SetPausedStep(authority, paused, slot)

SolvencySetEmergencyMode ==
    /\ steps < MaxSolvencySteps
    /\ \E authority \in Signers, emergency_mode \in BOOLEAN :
          SetEmergencyModeStep(authority, emergency_mode, slot)

SolvencyEmergencyWithdraw ==
    /\ steps < MaxSolvencySteps
    /\ \E e \in EmergencyInputs, amount \in U64 :
          LET in == [e EXCEPT !.amount = amount] IN
          Run(emergency_withdraw(Accounts, in),
              [Result("emergency_withdraw") EXCEPT !.amount = in.amount],
              slot)

\* the vault is a token account: anyone may transfer tokens of the pool's
\* mint into it with the token program, without calling the pool
VaultReceive ==
    /\ \E amount \in U64 \ {0} :
          LET tr == token_transfer(amount, vault, amount, TRUE) IN
          /\ tr.ok
          /\ vault' = tr.to
    /\ UNCHANGED <<pool, ext, nullifier_entries, slot, result, steps, first_spend,
                   emergency_used, codec, ledger, merkle>>

NextSolvency ==
    \/ SolvencyDeposit
    \/ SolvencyWithdraw
    \/ SolvencySetPaused
    \/ SolvencySetEmergencyMode
    \/ SolvencyEmergencyWithdraw
    \/ VaultReceive

SpecSolvency == Init /\ [][NextSolvency]_vars

(***************************************************************************)
(* Properties of the money flow (SpecSolvency).                            *)
(***************************************************************************)
\* C30: in every reachable state the vault holds at least total_shielded, and
\* total_shielded is the sum of the amounts of the successful deposits minus
\* the sums of the amounts of the successful withdraws and
\* emergency_withdraws.
C30_Solvency ==
    /\ vault >= pool.total_shielded
    /\ pool.total_shielded =
          ledger.deposit - ledger.withdraw - ledger.emergency_withdraw

\* after a deposit and a transfer made directly into the vault, an emergency
\* withdrawal has paid out part of what was deposited
C30_Witness ==
    /\ result.op = "emergency_withdraw"
    /\ ledger.emergency_withdraw > 0
    /\ ledger.deposit > ledger.emergency_withdraw
    /\ vault > pool.total_shielded

(***************************************************************************)
(* Properties of the order of checks and writes within an instruction      *)
(* (Spec).                                                                 *)
(***************************************************************************)
\* the codes with which withdraw fails without the verifier having accepted
\* the proof
VerifierOrEarlier ==
    BeforeVerifier \cup {"MerkleRootExpired", "VerificationKeyHashMismatch", "VerifierError"}

\* C31: within withdraw the entry of proof.nullifier comes into existence only
\* after the proof has been verified: when a withdraw fails without its proof
\* having been accepted, no entry exists for it in the state the instruction
\* had reached when it failed, and none in the state the transaction leaves.
C31_RecordAfterVerification ==
    \A now \in SlotsAhead, in \in WithdrawInputs :
        LET out == withdraw(Accounts, in, now) IN
        out.err \in VerifierOrEarlier =>
            /\ out.st.nullifier_entries = nullifier_entries
            /\ committed(Accounts, out).nullifier_entries = nullifier_entries

\* what holds instead: a withdraw that fails, at whatever point, leaves the
\* nullifier entries as they were once the transaction is rolled back, and the
\* fields of the entry are written only after the verifier has accepted
NoMarkerLeft ==
    \A now \in SlotsAhead, in \in WithdrawInputs :
        LET out == withdraw(Accounts, in, now) IN
        /\ out.err # "Ok" => committed(Accounts, out).nullifier_entries = nullifier_entries
        /\ out.err \in VerifierOrEarlier =>
              \A x \in Nullifiers :
                  \/ out.st.nullifier_entries[x] = nullifier_entries[x]
                  \/ out.st.nullifier_entries[x] = Entry(ZERO_ROOT, 0)

\* the codes of the read-only validations and of the proof verification of
\* deposit and withdraw
ValidationCodes ==
    VerifierOrEarlier \cup
        {"DepositBelowMinimum", "InvalidMerkleRoot", "InsufficientPoolBalance",
         "InsufficientVaultBalance"}

\* C32: in deposit and withdraw every read-only validation and the proof
\* verification complete before the first mutation: when one of them fails,
\* the accounts are, at that point of the instruction, still as they were
\* before it (no token moved, no nullifier entry created or written, no root
\* updated).
C32_ValidationFirst ==
    \A now \in SlotsAhead :
        /\ \A in \in DepositInputs :
              LET out == deposit(Accounts, in, now) IN
              out.err \in ValidationCodes => out.st = Accounts
        /\ \A in \in WithdrawInputs :
              LET out == withdraw(Accounts, in, now) IN
              out.err \in ValidationCodes => out.st = Accounts

\* what holds instead: deposit has made no write when a validation or the
\* verification fails (its check of the extended buffer's owner, placed after
\* the transfer and the root update, never fails for the pool's own buffer);
\* withdraw runs its two balance checks with the entry of proof.nullifier
\* already created and written, and has made no other write by then
DepositValidationFirst ==
    \A now \in SlotsAhead, in \in DepositInputs :
        LET out == deposit(Accounts, in, now) IN
        out.err \in ValidationCodes => out.st = Accounts

BalanceCheckAfterRecording ==
    \A now \in SlotsAhead, in \in WithdrawInputs :
        LET out == withdraw(Accounts, in, now) IN
        out.err \in {"InsufficientPoolBalance", "InsufficientVaultBalance"} =>
            out.st = [Accounts EXCEPT
                         !.nullifier_entries[in.proof_data.nullifier] =
                             Entry(in.proof_data.nullifier, now)]

(***************************************************************************)
(* Properties of the emergency path (SpecSolvency).                        *)
(***************************************************************************)
\* the emergency_withdraw calls of every u64 amount
SolvencyEmergencyInputs ==
    {[e EXCEPT !.amount = amount] : e \in EmergencyInputs, amount \in U64}

\* the accounts after amount has left the vault and total_shielded and one
\* withdrawal has been counted, all else as in st
EmergencyPaid(st, amount) ==
    [st EXCEPT
        !.vault = @ - amount,
        !.pool.total_shielded = @ - amount,
        !.pool.total_withdrawals = @ + 1]

\* C33: a successful emergency_withdraw(amount) takes amount off total_shielded
\* and out of the vault and adds 1 to total_withdrawals; the commitment root
\* and its stamp, both root buffers and their indices, last_nullifiers_root,
\* total_nullifiers, total_deposits, both flags and every nullifier entry stay
\* as they were.  Stated of every call on the current accounts, and of every
\* emergency_withdraw step taken.
C33_EmergencyFrame ==
    /\ [](\A in \in SolvencyEmergencyInputs :
             LET out == emergency_withdraw(Accounts, in) IN
             out.err = "Ok" =>
                 /\ pool.total_shielded >= in.amount
                 /\ vault >= in.amount
                 /\ out.st = EmergencyPaid(Accounts, in.amount))
    /\ [][(steps' # steps /\ result'.op = "emergency_withdraw") =>
             /\ vault' = vault - result'.amount
             /\ pool' = EmergencyPaid(Accounts, result'.amount).pool
             /\ UNCHANGED <<ext, nullifier_entries>>]_vars

\* an emergency withdrawal of a positive amount has been made from a pool that
\* holds a deposit, a committed root and an open historical entry, and another
\* one can follow
C33_Witness ==
    /\ result.op = "emergency_withdraw"
    /\ result.amount > 0
    /\ pool.total_deposits > 0
    /\ pool.total_withdrawals > 0
    /\ pool.commitment_root # ZERO_ROOT
    /\ pool.roots_index > 0
    /\ \E in \in SolvencyEmergencyInputs :
          in.amount > 0 /\ emergency_withdraw(Accounts, in).err = "Ok"

(***************************************************************************)
(* Properties of batch settlement and of record_nullifier                  *)
(* (SpecNullifiers).                                                       *)
(***************************************************************************)
\* the settlement bundles of the model's nullifier trees, with every count a
\* u32 holds and one it does not hold
BatchInputs ==
    {SettleIn(o, n, r, c) :
        o \in Roots, n \in Roots, r \in NullifiersRoots, c \in 0..(U32_MAX + 1)}

\* the step creates the entry of nullifier x
Creates(x) == ~nullifier_entries[x].exists /\ nullifier_entries'[x].exists

\* C34: a successful settle_batch stores proof.nullifiers_root as
\* last_nullifiers_root, adds the decoded nullifier_count to total_nullifiers
\* and makes proof.new_root the commitment root, retiring the old one; it
\* creates no NullifierEntry and leaves total_shielded, total_deposits,
\* total_withdrawals, the extended buffer and the vault as they were.  An
\* entry comes into existence only by a step of its own for that nullifier: a
\* record_nullifier (or a withdraw spending it), never by the settlement.
C34_SettleDefers ==
    /\ [](\A now \in NullifierSlotsAhead, in \in BatchInputs :
             LET out == settle_batch(Accounts, in, now)
                 q == out.st.pool
             IN
             out.err = "Ok" =>
                 /\ q.last_nullifiers_root = in.proof_data.nullifiers_root
                 /\ in.proof_data.nullifier_count.lo <= U32_MAX
                 /\ q.total_nullifiers =
                       pool.total_nullifiers + in.proof_data.nullifier_count.lo
                 /\ q.commitment_root = in.proof_data.new_root
                 /\ q.commitment_root_slot = now
                 /\ Retired(q, pool.commitment_root, pool.commitment_root_slot)
                 /\ q.total_shielded = pool.total_shielded
                 /\ q.total_deposits = pool.total_deposits
                 /\ q.total_withdrawals = pool.total_withdrawals
                 /\ q.paused = pool.paused /\ q.emergency_mode = pool.emergency_mode
                 /\ out.st.nullifier_entries = nullifier_entries
                 /\ out.st.ext = ext
                 /\ out.st.vault = vault)
    /\ [][(steps' # steps /\ result'.op = "settle_batch") =>
             UNCHANGED <<nullifier_entries, vault, ext>>]_vars
    /\ [][\A x \in Nullifiers :
             Creates(x) =>
                 /\ steps' # steps
                 /\ result'.op \in {"record_nullifier", "withdraw"}
                 /\ result'.nullifier = x]_vars

\* a batch of one nullifier has been settled and counted, and afterwards a
\* record_nullifier with a path into the stored root has created the entry of
\* a nullifier, the other nullifier still having none
C34_Witness ==
    /\ result.op = "record_nullifier"
    /\ nullifier_entries[result.nullifier].exists
    /\ \E x \in Nullifiers : ~nullifier_entries[x].exists
    /\ pool.last_nullifiers_root # ZERO_ROOT
    /\ pool.total_nullifiers = U32_MAX
    /\ pool.total_withdrawals = 0

\* C35: while last_nullifiers_root holds its initial all-zero value (no
\* settle_batch has stored a root), every record_nullifier fails and creates
\* no entry, for every nullifier and every path, the empty path included.
C35_RecordNeedsSettlement ==
    pool.last_nullifiers_root = ZERO_ROOT =>
        \A now \in NullifierSlotsAhead, in \in RecordPaths :
            LET out == record_nullifier(Accounts, in, now) IN
            /\ out.err # "Ok"
            /\ committed(Accounts, out).nullifier_entries = nullifier_entries

\* what holds instead: before any settlement the only record_nullifier that
\* succeeds is the one for the all-zero nullifier with the empty path, which
\* claims the all-zero root
RecordBeforeSettlement ==
    pool.last_nullifiers_root = ZERO_ROOT =>
        \A now \in NullifierSlotsAhead, in \in RecordPaths :
            record_nullifier(Accounts, in, now).err = "Ok" <=>
                /\ in.nullifier = ZERO_ROOT
                /\ in.nullifiers_root = ZERO_ROOT
                /\ in.merkle_proof = <<>>
                /\ in.path_indices = <<>>
                /\ ~nullifier_entries[ZERO_ROOT].exists

(***************************************************************************)
(* Properties of the age of the current root (SpecRoots).                  *)
(***************************************************************************)
\* more than MAX_ROOT_AGE_SLOTS slots have passed at `now` since the last
\* committed transition
Expired(now) == now - pool.commitment_root_slot > MAX_ROOT_AGE_SLOTS

\* the first slot at which the current root is too old, and the last slot a
\* transaction runs at
AfterExpiry ==
    {now \in {pool.commitment_root_slot + MAX_ROOT_AGE_SLOTS + 1,
              InitSlot + MIN_NULLIFIER_AGE_FOR_CLEANUP + MAX_ROOT_AGE_SLOTS + 1} :
        now >= slot}

\* the well-formed withdraw bundles citing any root, with and without the
\* extended history
AnyRootWithdraws ==
    {WithdrawIn(0, x, o, MaxRoot, e) : x \in Nullifiers, o \in Roots, e \in BOOLEAN}

\* the well-formed withdraw bundles citing the current root
CurrentRootWithdraws ==
    {WithdrawIn(0, x, pool.commitment_root, n, e) :
        x \in Nullifiers, n \in Roots, e \in BOOLEAN}

\* a deposit of the minimum would overflow neither the balances nor the count
RoomForDeposit ==
    /\ vault + MIN_DEPOSIT_SPL_UNITS <= U64_MAX
    /\ pool.total_shielded + MIN_DEPOSIT_SPL_UNITS <= U64_MAX
    /\ pool.total_deposits < U64_MAX

\* C36: the current root itself expires.  At every slot more than
\* MAX_ROOT_AGE_SLOTS after the last committed transition no withdraw
\* succeeds, whatever root it cites, and a withdraw citing commitment_root
\* whose accounts pass fails with MerkleRootExpired; deposit and settle_batch
\* citing commitment_root are accepted at such a slot, having no age check;
\* and every withdraw that succeeds runs within MAX_ROOT_AGE_SLOTS of the
\* transition before it, so that after an expiry a withdraw succeeds again
\* only after a deposit or settle_batch has committed a root.
C36_CurrentRootExpires ==
    /\ [](\A now \in AfterExpiry :
             Expired(now) =>
                 /\ \A in \in AnyRootWithdraws \cup CurrentRootWithdraws :
                       withdraw(Accounts, in, now).err # "Ok"
                 /\ \A in \in CurrentRootWithdraws :
                       withdraw_accounts(Accounts, in).err = "Ok" =>
                           withdraw(Accounts, in, now).err = "MerkleRootExpired"
                 /\ \A n \in Roots :
                       settle_batch(Accounts, SettleIn(pool.commitment_root, n, ZERO_ROOT, 0),
                                    now).err = "Ok"
                 /\ \A n \in Roots :
                       (pool.vk_hash = keccak_vk(VkOf(DEPOSIT)) /\ RoomForDeposit) =>
                           deposit(Accounts,
                                   DepositIn(MIN_DEPOSIT_SPL_UNITS, pool.commitment_root, n, FALSE),
                                   now).err = "Ok")
    /\ [][(steps' # steps /\ result'.op = "withdraw") =>
             slot' - pool.commitment_root_slot <= MAX_ROOT_AGE_SLOTS]_vars

\* the initial root has expired unused, a later transition has committed a new
\* root, and a withdraw has succeeded after it: the root it superseded was
\* committed more than MAX_ROOT_AGE_SLOTS after initialization
C36_Witness ==
    /\ result.op = "withdraw"
    /\ slot > InitSlot + MAX_ROOT_AGE_SLOTS
    /\ pool.roots_index = 2
    /\ pool.historical_roots_slots[0] = InitSlot
    /\ pool.historical_roots_slots[1] > InitSlot + MAX_ROOT_AGE_SLOTS
    /\ \E now \in AfterExpiry : Expired(now)

(***************************************************************************)
(* Properties of what the ring buffers retain (SpecRing).                  *)
(***************************************************************************)
\* the root is held by an entry of the buffer that carries a stamp
InlinePresent(root) ==
    \E i \in InlineIdx :
        /\ pool.historical_roots[i] = root
        /\ pool.historical_roots_slots[i] \in RingSlots
        /\ pool.historical_roots_slots[i] <= slot

ExtendedPresent(root) ==
    \E i \in ExtIdx :
        /\ ext.roots[i] = root
        /\ ext.slots[i] \in RingSlots
        /\ ext.slots[i] <= slot

Digests == 0..MaxDigest

MerklePaths == UNION {[1..k -> Digests] : k \in 0..MaxPath}

PathIndices == UNION {[1..k -> 0..MaxPathIndex] : k \in 0..MaxPath}

MerkleCompute ==
    /\ merkle.call = "none"
    /\ \E leaf \in Digests, proof \in MerklePaths, path_indices \in PathIndices :
          merkle' = [call |-> "compute_merkle_root_with_indices", leaf |-> leaf,
                     proof |-> proof, path_indices |-> path_indices,
                     root |-> compute_merkle_root_with_indices(leaf, proof, path_indices)]
    /\ UNCHANGED <<pool, ext, nullifier_entries, vault, slot, result, steps, first_spend,
                   emergency_used, codec, ledger>>

\* the settlement of a batch whose nullifier tree has the computed root
MerkleSettleBatch ==
    /\ steps < MaxMerkleSteps
    /\ merkle.call # "none"
    /\ SettleBatchStep(SettleIn(pool.commitment_root, MaxRoot, merkle.root, 0), slot)

\* record_nullifier for the leaf, with the path and the path indices folded
MerkleRecordNullifier ==
    /\ steps < MaxMerkleSteps
    /\ merkle.call # "none"
    /\ merkle.leaf \in Nullifiers
    /\ RecordNullifierStep([nullifier |-> merkle.leaf,
                            nullifiers_root |-> merkle.root,
                            merkle_proof |-> merkle.proof,
                            path_indices |-> merkle.path_indices], slot)

NextMerkle ==
    \/ MerkleCompute
    \/ MerkleSettleBatch
    \/ MerkleRecordNullifier

SpecMerkle == Init /\ [][NextMerkle]_vars

(***************************************************************************)
(* Properties of the Merkle fold (SpecMerkle).                             *)
(***************************************************************************)
\* the path index that decides level i of the call, as the loop reads it
IndexAt(path_indices, i) == IF i <= Len(path_indices) THEN path_indices[i] ELSE 0

\* the call's arguments without their last level
Below(s) ==
    LET n == Len(merkle.proof) - 1 IN
    SubSeq(s, 1, IF Len(s) < n THEN Len(s) ELSE n)

\* the node the last level of the call starts from
NodeBelow ==
    compute_merkle_root_with_indices(merkle.leaf, Below(merkle.proof),
                                     Below(merkle.path_indices))

\* C38: the fold orders the two hash inputs of a level by the path index,
\* never by value.  The empty path returns the leaf; the result of a level is
\* the one-level fold of (current node, sibling, path index) alone, whatever
\* lies below; with current node different from the sibling, index 0 and
\* index 1 give different results at that level, whichever of the two nodes
\* is the smaller; and every non-zero index acts as index 1.
C38_OrderedByPathBit ==
    merkle.call # "none" =>
        /\ Len(merkle.proof) = 0 => merkle.root = merkle.leaf
        /\ Len(merkle.proof) > 0 =>
              LET n == Len(merkle.proof)
                  sibling == merkle.proof[n]
                  at(index) == compute_merkle_root_with_indices(NodeBelow, <<sibling>>, <<index>>)
              IN
              /\ merkle.root = at(IndexAt(merkle.path_indices, n))
              /\ NodeBelow # sibling => at(0) # at(1)
              /\ \A index \in 1..MaxPathIndex : at(index) = at(1)
              /\ at(0) = compute_merkle_root_with_indices(sibling, <<NodeBelow>>, <<1>>)

\* a path of full length whose last level joins two different nodes, the
\* current node being the larger one, has been folded, its root settled and
\* the leaf recorded with it
C38_Witness ==
    /\ result.op = "record_nullifier"
    /\ Len(merkle.proof) = MaxPath
    /\ Len(merkle.path_indices) = MaxPath
    /\ NodeBelow > merkle.proof[MaxPath]
    /\ merkle.path_indices[MaxPath] = 0
    /\ pool.last_nullifiers_root = merkle.root
    /\ nullifier_entries[merkle.leaf].exists

\* the result of one level for the node current and its sibling
LevelLeftOnZero(current, sibling, index) ==
    IF index = 0 THEN keccak_pair(current, sibling) ELSE keccak_pair(sibling, current)

LevelRightOnZero(current, sibling, index) ==
    IF index = 0 THEN keccak_pair(sibling, current) ELSE keccak_pair(current, sibling)

\* C39 as stated: at each level path index 0 makes the sibling the left hash
\* input and the current node the right one, H(A, L), and path index 1 makes
\* the sibling the right input and the current node the left one, H(L, A).
C39_SiblingLeftOnZero ==
    (merkle.call # "none" /\ Len(merkle.proof) > 0) =>
        LET n == Len(merkle.proof) IN
        merkle.root =
            LevelRightOnZero(NodeBelow, merkle.proof[n], IndexAt(merkle.path_indices, n))

\* C39: at each level path index 0 makes the current node the left hash input
\* and the sibling the right one, H(L, A), and a non-zero path index makes the
\* sibling the left input and the current node the right one, H(A, L); a
\* level without a path index counts as index 0.
C39_CurrentLeftOnZero ==
    (merkle.call # "none" /\ Len(merkle.proof) > 0) =>
        LET n == Len(merkle.proof) IN
        merkle.root =
            LevelLeftOnZero(NodeBelow, merkle.proof[n], IndexAt(merkle.path_indices, n))

\* a one-level path with index 1 whose leaf differs from the sibling has been
\* folded to H(A, L), that root settled and the leaf recorded under it
C39_Witness ==
    /\ result.op = "record_nullifier"
    /\ Len(merkle.proof) = 1
    /\ merkle.path_indices = <<1>>
    /\ merkle.leaf # merkle.proof[1]
    /\ merkle.root = keccak_pair(merkle.proof[1], merkle.leaf)
    /\ pool.last_nullifiers_root = merkle.root
    /\ nullifier_entries[merkle.leaf].exists

(***************************************************************************)
(* SpecCounters: the instructions that update total_shielded,              *)
(* total_deposits, total_withdrawals and total_nullifiers, with every      *)
(* amount and nullifier count, run until the counters stand at u64::MAX.   *)
(***************************************************************************)
CounterDepositInputs == {DepositIn(amount, o, MaxRoot, FALSE) : amount \in U64, o \in Roots}

CounterWithdrawInputs ==
    {WithdrawIn(amount, x, o, MaxRoot, FALSE) : amount \in U64, x \in Nullifiers, o \in Roots}

CounterSettleInputs == {SettleIn(o, MaxRoot, 1, c) : o \in Roots, c \in {0, U32_MAX}}

CountersDeposit ==
    /\ steps < MaxCounterSteps
    /\ \E in \in CounterDepositInputs :
          Run(deposit(Accounts, in, slot),
              [Result("deposit") EXCEPT
                  !.verified = cpi_verify(in.proof_data.proof),
                  !.amount = in.amount],
              slot)

CountersWithdraw ==
    /\ steps < MaxCounterSteps
    /\ \E in \in CounterWithdrawInputs :
          Run(withdraw(Accounts, in, slot),
              [Result("withdraw") EXCEPT
                  !.nullifier = in.proof_data.nullifier,
                  !.verified = cpi_verify(in.proof_data.proof),
                  !.amount = field_to_u64(in.proof_data.amount).val],
              slot)

CountersSettleBatch ==
    /\ steps < MaxCounterSteps
    /\ \E in \in CounterSettleInputs : SettleBatchStep(in, slot)

CountersSetPaused ==
    /\ steps < MaxCounterSteps
    /\ SetPausedStep(ADMIN, ~pool.paused, slot)

CountersSetEmergencyMode ==
    /\ steps < MaxCounterSteps
    /\ SetEmergencyModeStep(ADMIN, ~pool.emergency_mode, slot)

CountersEmergencyWithdraw ==
    /\ steps < MaxCounterSteps
    /\ \E in \in SolvencyEmergencyInputs :
          Run(emergency_withdraw(Accounts, in),
              [Result("emergency_withdraw") EXCEPT !.amount = in.amount],
              slot)

NextCounters ==
    \/ CountersDeposit
    \/ CountersWithdraw
    \/ CountersSettleBatch
    \/ CountersSetPaused
    \/ CountersSetEmergencyMode
    \/ CountersEmergencyWithdraw

SpecCounters == Init /\ [][NextCounters]_vars

\* the accounts with the three event counters back at zero: a call that
\* succeeds on them is one that only a counter at its limit can stop
CountersAtZero(st) ==
    [st EXCEPT !.pool.total_deposits = 0,
               !.pool.total_withdrawals = 0,
               !.pool.total_nullifiers = 0]

\* the accounts with total_shielded at its largest and the counters at zero
FullyShielded(st) == [CountersAtZero(st) EXCEPT !.pool.total_shielded = U64_MAX]

\* the accounts with total_shielded and the counters at zero
NothingShielded(st) == [CountersAtZero(st) EXCEPT !.pool.total_shielded = 0]

CounterValues(p) ==
    <<p.total_shielded, p.total_deposits, p.total_withdrawals, p.total_nullifiers>>

\* C40: total_shielded, total_deposits, total_withdrawals and total_nullifiers
\* never wrap.  Every stored value is a u64, and a successful instruction
\* changes them by the exact amounts: a deposit adds what the vault received
\* to total_shielded and 1 to total_deposits, a withdrawal takes its amount
\* from total_shielded and adds 1 to total_withdrawals and to total_nullifiers,
\* an emergency withdrawal does the same without total_nullifiers, a
\* settlement adds its nullifier count to total_nullifiers, and nothing else
\* changes them.  A call that only the size of a counter stands against (it
\* succeeds with the counters at zero) fails with Overflow when a sum would
\* exceed u64::MAX, and with InsufficientPoolBalance or Underflow when the
\* amount exceeds total_shielded, and the stored accounts stay as they were.
C40_NoWraparound ==
    /\ [](\A i \in 1..4 : CounterValues(pool)[i] \in U64)
    /\ [](\A in \in CounterDepositInputs :
             LET out == deposit(Accounts, in, slot) IN
             (/\ deposit(NothingShielded(Accounts), in, slot).err = "Ok"
              /\ \/ pool.total_shielded + in.amount > U64_MAX
                 \/ pool.total_deposits + 1 > U64_MAX)
                 => out.err = "Overflow" /\ committed(Accounts, out) = Accounts)
    /\ [](\A in \in CounterWithdrawInputs :
             LET out == withdraw(Accounts, in, slot)
                 amount == field_to_u64(in.proof_data.amount).val
             IN
             /\ (/\ withdraw(CountersAtZero(Accounts), in, slot).err = "Ok"
                 /\ \/ pool.total_withdrawals + 1 > U64_MAX
                    \/ pool.total_nullifiers + 1 > U64_MAX)
                    => out.err = "Overflow" /\ committed(Accounts, out) = Accounts
             /\ (/\ withdraw(FullyShielded(Accounts), in, slot).err = "Ok"
                 /\ pool.total_shielded < amount)
                    => /\ out.err \in {"InsufficientPoolBalance", "Underflow"}
                       /\ committed(Accounts, out) = Accounts)
    /\ [](\A in \in SolvencyEmergencyInputs :
             LET out == emergency_withdraw(Accounts, in) IN
             /\ (/\ emergency_withdraw(CountersAtZero(Accounts), in).err = "Ok"
                 /\ pool.total_withdrawals + 1 > U64_MAX)
                    => out.err = "Overflow" /\ committed(Accounts, out) = Accounts
             /\ (/\ emergency_withdraw(FullyShielded(Accounts), in).err = "Ok"
                 /\ pool.total_shielded < in.amount)
                    => /\ out.err \in {"InsufficientPoolBalance", "Underflow"}
                       /\ committed(Accounts, out) = Accounts)
    /\ [](\A in \in CounterSettleInputs :
             LET out == settle_batch(Accounts, in, slot)
                 count == field_to_u32(in.proof_data.nullifier_count).val
             IN
             /\ (/\ settle_batch(CountersAtZero(Accounts), in, slot).err = "Ok"
                 /\ pool.total_nullifiers + count > U64_MAX)
                    => out.err = "Overflow" /\ committed(Accounts, out) = Accounts
             /\ out.err = "Ok" =>
                    out.st.pool.total_nullifiers = pool.total_nullifiers + count)
    /\ [][LET op == IF steps' # steps THEN result'.op ELSE "none"
              was == CounterValues(pool)
              is == CounterValues(pool')
          IN
          CASE op = "deposit" ->
                   is = <<was[1] + (vault' - vault), was[2] + 1, was[3], was[4]>>
            [] op = "withdraw" ->
                   is = <<was[1] - result'.amount, was[2], was[3] + 1, was[4] + 1>>
            [] op = "emergency_withdraw" ->
                   is = <<was[1] - result'.amount, was[2], was[3] + 1, was[4]>>
            [] op = "settle_batch" ->
                   /\ is[4] \in was[4]..(was[4] + U32_MAX)
                   /\ <<is[1], is[2], is[3]>> = <<was[1], was[2], was[3]>>
            [] OTHER -> is = was]_vars

\* total_deposits and total_nullifiers stand at u64::MAX after deposits and
\* settlements, an emergency withdrawal has made room in the vault and the pool
\* is active again; the next deposit the vault has room for and the next
\* settlement of a non-empty batch fail with Overflow
C40_Witness ==
    /\ pool.total_deposits = U64_MAX
    /\ pool.total_nullifiers = U64_MAX
    /\ pool.total_withdrawals > 0
    /\ \E in \in CounterDepositInputs :
          /\ vault + in.amount <= U64_MAX
          /\ deposit(Accounts, in, slot).err = "Overflow"
    /\ \E in \in CounterSettleInputs :
          /\ field_to_u32(in.proof_data.nullifier_count).val = U32_MAX
          /\ settle_batch(Accounts, in, slot).err = "Overflow"

====
